---- MODULE Spec2Model ----
(***************************************************************************)
(* A model of geecache: the bounded LRU store (lru/lru.go), the local      *)
(* cache wrapper (cache.go), the cache group orchestrator (geecache.go),   *)
(* the consistent-hash ring (consistenthash/consistenthash.go), the peer   *)
(* pool and its HTTP handler (http.go) and the start of a node (main.go).  *)
(*                                                                         *)
(* Go strings and byte slices are TLA+ strings; len(s) is Len(s).          *)
(***************************************************************************)
EXTENDS Integers, Sequences, FiniteSets, TLC

VARIABLES
    \* lru/lru.go
    lru,        \* the *lru.Cache of the store / of the group's mainCache (NIL before construction)
    hung,       \* TRUE once an Add is stuck in its eviction loop
    last,       \* the store operation made last: [op, key, value, ok, updated, evicted,
                \*   moved, touched, order, gone]
    \* geecache.go: one Group g and the goroutines calling its methods
    cacheBytes, \* g.mainCache.cacheBytes
    peers,      \* g.peers (NIL until a picker is registered)
    pc,         \* pc[t]: where goroutine t stands
    call,       \* call[t]: the Get / RegisterPeers call goroutine t is making, with what it did so far
    prev,       \* the call the sequential caller completed before the current one
    attaches,   \* number of executions of `g.peers = peers`
    panicked,   \* TRUE once a panic has ended the process
    \* geecache.go: the process-wide registry
    groups,     \* the map groups: name -> *Group (an index into created)
    created,    \* the Group objects in order of their construction
    lookup,     \* the GetGroup call made last: [name, g, made, at]
    \* consistenthash/consistenthash.go: two rings constructed independently
    ring,       \* ring[r]: the Map [replicas, hash, keys, hashMap]
    fed,        \* fed[r]: the peers handed to ring r's Add calls so far, in order
    adds,       \* adds[r]: the number of Add calls made on ring r
    picked,     \* the Map.Get call made last: [made, r, key, at, peer]
    \* cache.go: the mutex of the group's mainCache
    mu,         \* c.mu: the goroutine holding it, 0 when it is free
    crit,       \* crit[t]: "in" while goroutine t is inside cache.add or cache.get
    \* http.go: the HTTPPool of the node and the request its handler is serving
    pool,       \* the *HTTPPool [self, peers, httpGetters]
    lastPick,   \* the PickPeer call made last: [made, key, peer, ok, fault, getter]
    req,        \* the inbound request: [state, prefixed, path, parts, status, got, body]
    \* main.go
    boot,       \* how far main has come: [api, apiGo, step, addr]
    \* http.go: one peer fetch from httpGetter.Get to the handler of the peer
    wire,       \* [state, group, key, u, path, parts]
    \* several nodes, each one process running startCacheServer
    fleet,      \* fleet[addr]: [pool, lru] of the node listening on addr
    trip        \* the client Get under way: [state, key, entry, at, via, fetches,
                \*   src, value, err]; src tells where the node the request is at
                \*   has its answer from

lruVars == <<lru, hung, last>>
groupVars == <<cacheBytes, peers, pc, call, prev, attaches>>
registryVars == <<groups, created, lookup>>
ringVars == <<ring, fed, adds, picked>>
lockVars == <<mu, crit>>
poolVars == <<pool, lastPick>>
netVars == <<wire, fleet, trip>>
nodeVars == <<mu, crit, pool, lastPick, req, boot, wire, fleet, trip>>
vars == <<lru, hung, last, cacheBytes, peers, pc, call, prev, attaches, panicked,
          groups, created, lookup, ring, fed, adds, picked,
          mu, crit, pool, lastPick, req, boot, wire, fleet, trip>>

-----------------------------------------------------------------------------
(* Bounds *)

\* number of distinct keys offered to the LRU store
NumKeys == 3
\* longest value (in bytes) offered to the LRU store
MaxValLen == 3
\* largest capacity (maxBytes) an LRU store is constructed with
MaxCap == 4

KeyPool == <<"", "a", "bb", "ccc", "dddd">>
ValuePool == <<"", "x", "xy", "xyz", "xyzw", "xyzwv">>

Keys == {KeyPool[i] : i \in 1..NumKeys}
Values == {ValuePool[i + 1] : i \in 0..MaxValLen}
Capacities == (-1)..MaxCap

\* a nil interface value or nil pointer
NIL == "nil"
\* the nil *lru.Cache of a mainCache nothing was added to
NilCache == [nil |-> TRUE]

-----------------------------------------------------------------------------
(* lru/lru.go *)

\* value.Len() of a ByteView: len(v.b)
ValueLen(v) == Len(v)

\* the *entry stored in a list element
Entry(k, v) == [key |-> k, value |-> v]

\* lru.New(maxBytes, nil)
New(maxBytes) ==
    [maxBytes |-> maxBytes, nbytes |-> 0, ll |-> <<>>, cache |-> <<>>]

\* position in ll of the element that c.cache[key] points to (0: not linked)
IndexOf(ll, key) ==
    IF \E i \in 1..Len(ll) : ll[i].key = key
    THEN CHOOSE i \in 1..Len(ll) : ll[i].key = key
    ELSE 0

\* list.MoveToFront(ele), ele given by its position; a no-op for an unlinked element
MoveToFront(ll, i) ==
    IF i = 0 THEN ll
    ELSE <<ll[i]>> \o SubSeq(ll, 1, i - 1) \o SubSeq(ll, i + 1, Len(ll))

\* list.PushFront(e)
PushFront(ll, e) == <<e>> \o ll

\* map assignment m[k] = v
MapPut(m, k, v) == [x \in (DOMAIN m) \cup {k} |-> IF x = k THEN v ELSE m[x]]

\* delete(m, k)
MapDelete(m, k) == [x \in (DOMAIN m) \ {k} |-> m[x]]

\* RemoveOldest that forgets the key's bytes when it decrements the counter
RemoveOldestValueOnly(c) ==
    IF c.ll = <<>> THEN c
    ELSE LET kv == c.ll[Len(c.ll)]
         IN [c EXCEPT !.ll = SubSeq(c.ll, 1, Len(c.ll) - 1),
                      !.cache = MapDelete(c.cache, kv.key),
                      !.nbytes = @ - ValueLen(kv.value)]

\* Cache.RemoveOldest
RemoveOldest(c) ==
    IF c.ll = <<>> THEN c
    ELSE LET kv == c.ll[Len(c.ll)]
         IN [c EXCEPT !.ll = SubSeq(c.ll, 1, Len(c.ll) - 1),
                      !.cache = MapDelete(c.cache, kv.key),
                      !.nbytes = @ - (Len(kv.key) + ValueLen(kv.value))]

\* the insert/update half of Cache.Add (lines 41-57)
AddStore(c, key, value) ==
    IF key \in DOMAIN c.cache
    THEN LET i == IndexOf(c.ll, key)
             kv == c.cache[key]
             moved == MoveToFront(c.ll, i)
         IN [c EXCEPT !.ll = IF i = 0 THEN moved
                             ELSE [moved EXCEPT ![1] = Entry(key, value)],
                      !.nbytes = @ + ValueLen(value) - ValueLen(kv.value),
                      !.cache = MapPut(c.cache, key, Entry(key, value))]
    ELSE [c EXCEPT !.ll = PushFront(c.ll, Entry(key, value)),
                   !.cache = MapPut(c.cache, key, Entry(key, value)),
                   !.nbytes = @ + Len(key) + ValueLen(value)]

\* a loop condition without the test for capacity zero
OverBudgetAtZero(c) == c.maxBytes < c.nbytes

\* the loop condition of Cache.Add (line 60)
OverBudget(c) == c.maxBytes # 0 /\ c.maxBytes < c.nbytes

\* an eviction loop that removes the entry at the front of the list
RECURSIVE EvictLoopFront(_)
EvictLoopFront(c) ==
    IF ~OverBudget(c) THEN [c |-> c, returns |-> TRUE]
    ELSE IF c.ll = <<>> THEN [c |-> c, returns |-> FALSE]
    ELSE EvictLoopFront([c EXCEPT !.ll = Tail(c.ll),
                                  !.cache = MapDelete(c.cache, c.ll[1].key),
                                  !.nbytes = @ - (Len(c.ll[1].key) + ValueLen(c.ll[1].value))])

\* the eviction loop of Cache.Add (lines 60-62); with an empty list RemoveOldest
\* changes nothing, so a loop that is still over budget never exits
RECURSIVE EvictLoop(_)
EvictLoop(c) ==
    IF ~OverBudget(c) THEN [c |-> c, returns |-> TRUE]
    ELSE IF c.ll = <<>> THEN [c |-> c, returns |-> FALSE]
    ELSE EvictLoop(RemoveOldest(c))

\* Add that evicts at most one entry (an `if` in place of the `for`)
AddEvictOnce(c, key, value) ==
    LET s == AddStore(c, key, value)
    IN [c |-> IF OverBudget(s) THEN RemoveOldest(s) ELSE s, returns |-> TRUE]

\* Cache.Add
Add(c, key, value) == EvictLoop(AddStore(c, key, value))

\* Get that leaves the recency list as it is
GetInPlace(c, key) ==
    IF key \in DOMAIN c.cache
    THEN [c |-> c, value |-> c.cache[key].value, ok |-> TRUE]
    ELSE [c |-> c, value |-> "", ok |-> FALSE]

\* Cache.Get
Get(c, key) ==
    IF key \in DOMAIN c.cache
    THEN [c |-> [c EXCEPT !.ll = MoveToFront(c.ll, IndexOf(c.ll, key))],
          value |-> c.cache[key].value, ok |-> TRUE]
    ELSE [c |-> c, value |-> "", ok |-> FALSE]

\* Cache.Len
CacheLen(c) == Len(c.ll)

-----------------------------------------------------------------------------
(* The LRU store driven directly through its exported methods *)

\* keys of the entries that RemoveOldest took from the list `before`, oldest first
EvictedKeys(before, after) ==
    [i \in 1..(Len(before) - Len(after)) |-> before[Len(before) - i + 1].key]

KeysOf(order) == {order[i] : i \in 1..Len(order)}

\* the held keys in the order of their last touch, most recent first, after key was
\* touched
Touch(order, key) == <<key>> \o SelectSeq(order, LAMBDA k : k # key)

\* the order of last touch without the keys the operation removed
Without(order, gone) == SelectSeq(order, LAMBDA k : k \notin gone)

\* touched and order are the held keys in the order of their last touch (by Add or
\* by a Get that found them), most recent first: after the operation's touch, and
\* when it ended; gone are the keys it removed; moved tells that the key a Get
\* asked for was held and was not the one touched last
NoOp == [op |-> "New", key |-> "", value |-> "", ok |-> FALSE,
         updated |-> FALSE, evicted |-> <<>>,
         moved |-> FALSE, touched |-> <<>>, order |-> <<>>, gone |-> {}]

\* the variables of the parts of the program a specification does not run
IdleGroup ==
    /\ cacheBytes = 0
    /\ peers = NIL
    /\ pc = <<>>
    /\ call = <<>>
    /\ prev = <<>>
    /\ attaches = 0

IdleRegistry ==
    /\ groups = <<>>
    /\ created = <<>>
    /\ lookup = [name |-> "", g |-> 0, made |-> FALSE, at |-> 0]

IdleRing ==
    /\ ring = <<>>
    /\ fed = <<>>
    /\ adds = <<>>
    /\ picked = [made |-> FALSE, r |-> 0, key |-> "", at |-> 0, peer |-> ""]

IdleLock ==
    /\ mu = 0
    /\ crit = <<>>

IdlePool ==
    /\ pool = [nil |-> TRUE]
    /\ lastPick = [made |-> FALSE, key |-> "", peer |-> "", ok |-> FALSE, fault |-> FALSE,
                   getter |-> [nil |-> TRUE]]

IdleServer ==
    /\ req = [state |-> "none", prefixed |-> TRUE, path |-> <<>>, parts |-> <<>>,
              status |-> 0, got |-> FALSE, body |-> ""]

IdleMain ==
    /\ boot = [api |-> FALSE, apiGo |-> "none", step |-> "none", addr |-> ""]

\* no peer fetch, no nodes, no client
IdleNet ==
    /\ wire = <<>>
    /\ fleet = <<>>
    /\ trip = <<>>

IdleNode ==
    /\ IdleLock
    /\ IdlePool
    /\ IdleServer
    /\ IdleMain
    /\ IdleNet

InitLRU ==
    /\ \E m \in Capacities : lru = New(m)
    /\ hung = FALSE
    /\ last = NoOp
    /\ panicked = FALSE
    /\ IdleGroup
    /\ IdleRegistry
    /\ IdleRing
    /\ IdleNode

LruAdd(key, value) ==
    /\ ~hung
    /\ UNCHANGED <<groupVars, registryVars, ringVars, panicked, nodeVars>>
    /\ LET r == Add(lru, key, value)
       IN /\ lru' = r.c
          /\ hung' = ~r.returns
          /\ last' = [op |-> "Add", key |-> key, value |-> value, ok |-> r.returns,
                      updated |-> key \in DOMAIN lru.cache,
                      evicted |-> EvictedKeys(AddStore(lru, key, value).ll, r.c.ll),
                      moved |-> FALSE,
                      touched |-> Touch(last.order, key),
                      order |-> Without(Touch(last.order, key),
                                        (DOMAIN lru.cache \cup {key}) \ DOMAIN r.c.cache),
                      gone |-> (DOMAIN lru.cache \cup {key}) \ DOMAIN r.c.cache]

LruGet(key) ==
    /\ ~hung
    /\ LET r == Get(lru, key)
       IN /\ lru' = r.c
          /\ last' = [op |-> "Get", key |-> key, value |-> r.value, ok |-> r.ok,
                      updated |-> FALSE, evicted |-> <<>>,
                      moved |-> key \in KeysOf(last.order) /\ last.order[1] # key,
                      touched |-> IF r.ok THEN Touch(last.order, key) ELSE last.order,
                      order |-> IF r.ok THEN Touch(last.order, key) ELSE last.order,
                      gone |-> {}]
    /\ UNCHANGED <<hung, groupVars, registryVars, ringVars, panicked, nodeVars>>

LruRemoveOldest ==
    /\ ~hung
    /\ lru' = RemoveOldest(lru)
    /\ last' = [op |-> "RemoveOldest", key |-> "", value |-> "", ok |-> TRUE,
                updated |-> FALSE, evicted |-> EvictedKeys(lru.ll, RemoveOldest(lru).ll),
                moved |-> FALSE,
                touched |-> last.order,
                order |-> Without(last.order,
                                  DOMAIN lru.cache \ DOMAIN RemoveOldest(lru).cache),
                gone |-> DOMAIN lru.cache \ DOMAIN RemoveOldest(lru).cache]
    /\ UNCHANGED <<hung, groupVars, registryVars, ringVars, panicked, nodeVars>>

NextLRU ==
    \/ \E key \in Keys, value \in Values : LruAdd(key, value)
    \/ \E key \in Keys : LruGet(key)
    \/ LruRemoveOldest

SpecLRU == InitLRU /\ [][NextLRU]_vars

\* a store constructed with capacity zero, on which only Add and Get are called
InitUnbounded ==
    /\ lru = New(0)
    /\ hung = FALSE
    /\ last = NoOp
    /\ panicked = FALSE
    /\ IdleGroup
    /\ IdleRegistry
    /\ IdleRing
    /\ IdleNode

\* the values added to the store of capacity zero: the empty and the longest one
EdgeValues == {ValuePool[1], ValuePool[MaxValLen + 1]}

NextUnbounded ==
    \/ \E key \in Keys, value \in EdgeValues : LruAdd(key, value)
    \/ \E key \in Keys : LruGet(key)

SpecUnbounded == InitUnbounded /\ [][NextUnbounded]_vars

-----------------------------------------------------------------------------
(* main.go: the data source; geecache.go: the errors *)

\* the demonstration database of main.go
db == [Tom |-> "630", Jack |-> "589", Sam |-> "567"]

\* the GetterFunc handed to NewGroup: db[key], or the error "<key> not exist"
Getter(key) ==
    IF key \in DOMAIN db
    THEN [bytes |-> db[key], err |-> ""]
    ELSE [bytes |-> "", err |-> key \o " not exist"]

\* fmt.Errorf("key is required")
ErrKeyRequired == "key is required"

\* the error of a failed peer fetch (httpGetter.Get, non-200 status)
ErrPeer == "server returned: 500 Internal Server Error"

\* cloneBytes: a copy with the same content
cloneBytes(b) == b

-----------------------------------------------------------------------------
(* cache.go: the wrapper; each method runs under c.mu from start to end *)

\* cache.add that returns right after constructing the store
cacheAddConstructsOnly(l, bytes, key, value) ==
    IF l = NilCache THEN [c |-> New(bytes), returns |-> TRUE]
    ELSE Add(l, key, value)

\* cache.add
cacheAdd(l, bytes, key, value) ==
    Add(IF l = NilCache THEN New(bytes) ELSE l, key, value)

\* cache.get
cacheGet(l, key) ==
    IF l = NilCache THEN [c |-> l, value |-> "", ok |-> FALSE]
    ELSE Get(l, key)

-----------------------------------------------------------------------------
(* geecache.go: Group.Get, Group.load, Group.RegisterPeers *)

\* number of goroutines calling into the group
NumThreads == 2

Threads == 1..NumThreads
\* the keys callers ask for: the empty key, a key the database lacks, two it has
GetKeys == {"", "kkk", "Tom", "Jack"}

\* the capacities the group is created with: unbounded, too small for any row of the
\* database (len("Tom") + len("630") = 6), room for one row but not for two
GroupCapacities == {0, 5, 8}

\* the PeerPicker values handed to RegisterPeers
Pickers == {"pool"}
\* the payloads a remote peer may answer with
RemoteBytes == {"old"}

\* call[t] of a goroutine that is in no call. lookups, picks, fetches and loads count
\* the calls of mainCache.get, PickPeer, getFromPeer and getter.Get the call has made;
\* wrote tells whether one of its steps changed mainCache; remote is what the peer
\* answered; src, value and err are the result; conc tells that another Get for the
\* same key, not in mainCache then, was under way when this one began, or began while
\* this one was under way
IdleCall == [op |-> "none", key |-> "", picker |-> NIL, lookups |-> 0, picks |-> 0,
             fetches |-> 0, loads |-> 0, wrote |-> FALSE, remote |-> "", src |-> "",
             value |-> "", err |-> "", conc |-> FALSE]

InitGroup ==
    /\ lru = NilCache
    /\ hung = FALSE
    /\ last = NoOp
    /\ \E b \in GroupCapacities : cacheBytes = b
    /\ peers = NIL
    /\ pc = [t \in Threads |-> "idle"]
    /\ call = [t \in Threads |-> IdleCall]
    /\ prev = IdleCall
    /\ attaches = 0
    /\ panicked = FALSE
    /\ IdleRegistry
    /\ IdleRing
    /\ IdleNode

\* Group.Get without the test of the key
GroupGetUnchecked(t, key) ==
    /\ ~panicked
    /\ pc[t] = "idle"
    /\ pc' = [pc EXCEPT ![t] = "get"]
    /\ call' = [call EXCEPT ![t] = [IdleCall EXCEPT !.op = "Get", !.key = key]]
    /\ UNCHANGED <<lruVars, cacheBytes, peers, prev, attaches, panicked, registryVars, ringVars, nodeVars>>

\* Group.Get, lines 62-64: the empty key is refused before anything else
GroupGet(t, key) ==
    /\ ~panicked
    /\ pc[t] = "idle"
    /\ IF key = ""
       THEN /\ pc' = [pc EXCEPT ![t] = "done"]
            /\ call' = [call EXCEPT ![t] = [IdleCall EXCEPT !.op = "Get", !.key = key,
                                                            !.err = ErrKeyRequired]]
       ELSE /\ pc' = [pc EXCEPT ![t] = "get"]
            /\ call' = [call EXCEPT ![t] = [IdleCall EXCEPT !.op = "Get", !.key = key]]
    /\ UNCHANGED <<lruVars, cacheBytes, peers, prev, attaches, panicked, registryVars, ringVars, nodeVars>>

\* Group.Get, lines 67-73: g.mainCache.get(key); a hit is returned
MainCacheGet(t) ==
    /\ ~panicked /\ ~hung
    /\ pc[t] = "get"
    /\ LET r == cacheGet(lru, call[t].key)
       IN /\ lru' = r.c
          /\ IF r.ok
             THEN /\ pc' = [pc EXCEPT ![t] = "done"]
                  /\ call' = [call EXCEPT ![t].lookups = @ + 1, ![t].src = "hit",
                                          ![t].value = r.value,
                                          ![t].wrote = @ \/ (r.c # lru)]
             ELSE /\ pc' = [pc EXCEPT ![t] = "load"]
                  /\ call' = [call EXCEPT ![t].lookups = @ + 1,
                                          ![t].wrote = @ \/ (r.c # lru)]
    /\ UNCHANGED <<hung, last, cacheBytes, peers, prev, attaches, panicked, registryVars, ringVars, nodeVars>>

\* a load that, when another Get for the same key has loaded the value and is about to
\* store it, returns that value without a loader call of its own
LoadJoins(t) ==
    /\ ~panicked
    /\ pc[t] = "load"
    /\ IF \E u \in DOMAIN pc : u # t /\ pc[u] = "populateCache" /\ call[u].key = call[t].key
       THEN /\ pc' = [pc EXCEPT ![t] = "done"]
            /\ call' = [call EXCEPT ![t].src = "loader",
                                    ![t].value = db[call[t].key]]
       ELSE IF peers # NIL
       THEN \E ok \in BOOLEAN :
              /\ pc' = [pc EXCEPT ![t] = IF ok THEN "getFromPeer" ELSE "getLocally"]
              /\ call' = [call EXCEPT ![t].picks = @ + 1]
       ELSE /\ pc' = [pc EXCEPT ![t] = "getLocally"]
            /\ UNCHANGED call
    /\ UNCHANGED <<lruVars, cacheBytes, peers, prev, attaches, panicked, registryVars, ringVars, nodeVars>>

\* Group.load, lines 87-97: with a picker registered, g.peers.PickPeer(key) names a
\* remote peer or declines; without one, or when it declines, getLocally is next
Load(t) ==
    /\ ~panicked
    /\ pc[t] = "load"
    /\ IF peers # NIL
       THEN \E ok \in BOOLEAN :
              /\ pc' = [pc EXCEPT ![t] = IF ok THEN "getFromPeer" ELSE "getLocally"]
              /\ call' = [call EXCEPT ![t].picks = @ + 1]
       ELSE /\ pc' = [pc EXCEPT ![t] = "getLocally"]
            /\ UNCHANGED call
    /\ UNCHANGED <<lruVars, cacheBytes, peers, prev, attaches, panicked, registryVars, ringVars, nodeVars>>

\* a load that also stores what the peer answered in mainCache
LoadFetchedPopulates(c, bytes) ==
    [pc |-> "populateCache",
     call |-> [c EXCEPT !.fetches = @ + 1, !.remote = bytes, !.value = bytes]]

\* Group.load, lines 91-93, and Group.getFromPeer, line 130: the peer's bytes are
\* wrapped in a ByteView and returned
LoadFetched(c, bytes) ==
    [pc |-> "done",
     call |-> [c EXCEPT !.fetches = @ + 1, !.remote = bytes, !.src = "peer",
                        !.value = bytes]]

\* a load that hands the peer's error to its caller
LoadFetchFailedReturns(c) ==
    [pc |-> "done", call |-> [c EXCEPT !.fetches = @ + 1, !.err = ErrPeer]]

\* Group.load, lines 94-100: the peer's error is logged and getLocally is next
LoadFetchFailed(c) ==
    [pc |-> "getLocally", call |-> [c EXCEPT !.fetches = @ + 1]]

\* Group.getFromPeer and lines 91-95 of Group.load: the peer answers with bytes, which
\* are returned, or the fetch fails, which is logged before getLocally
GetFromPeer(t) ==
    /\ ~panicked
    /\ pc[t] = "getFromPeer"
    /\ \/ \E bytes \in RemoteBytes :
            LET r == LoadFetched(call[t], bytes)
            IN /\ pc' = [pc EXCEPT ![t] = r.pc]
               /\ call' = [call EXCEPT ![t] = r.call]
       \/ LET r == LoadFetchFailed(call[t])
          IN /\ pc' = [pc EXCEPT ![t] = r.pc]
             /\ call' = [call EXCEPT ![t] = r.call]
    /\ UNCHANGED <<lruVars, cacheBytes, peers, prev, attaches, panicked, registryVars, ringVars, nodeVars>>

\* Group.getLocally that wraps the getter's error
GetLocallyWraps(t) ==
    /\ ~panicked
    /\ pc[t] = "getLocally"
    /\ LET r == Getter(call[t].key)
       IN IF r.err # ""
          THEN /\ pc' = [pc EXCEPT ![t] = "done"]
               /\ call' = [call EXCEPT ![t].loads = @ + 1,
                                       ![t].err = "load failed: " \o r.err]
          ELSE /\ pc' = [pc EXCEPT ![t] = "populateCache"]
               /\ call' = [call EXCEPT ![t].loads = @ + 1,
                                       ![t].value = cloneBytes(r.bytes)]
    /\ UNCHANGED <<lruVars, cacheBytes, peers, prev, attaches, panicked, registryVars, ringVars, nodeVars>>

\* Group.getLocally, lines 111-116: g.getter.Get(key); its error is returned as it is
GetLocally(t) ==
    /\ ~panicked
    /\ pc[t] = "getLocally"
    /\ LET r == Getter(call[t].key)
       IN IF r.err # ""
          THEN /\ pc' = [pc EXCEPT ![t] = "done"]
               /\ call' = [call EXCEPT ![t].loads = @ + 1, ![t].err = r.err]
          ELSE /\ pc' = [pc EXCEPT ![t] = "populateCache"]
               /\ call' = [call EXCEPT ![t].loads = @ + 1,
                                       ![t].value = cloneBytes(r.bytes)]
    /\ UNCHANGED <<lruVars, cacheBytes, peers, prev, attaches, panicked, registryVars, ringVars, nodeVars>>

\* Group.getLocally, lines 118-119, and Group.populateCache: g.mainCache.add(key, value)
PopulateCache(t) ==
    /\ ~panicked /\ ~hung
    /\ pc[t] = "populateCache"
    /\ LET r == cacheAdd(lru, cacheBytes, call[t].key, call[t].value)
       IN /\ lru' = r.c
          /\ hung' = ~r.returns
          /\ pc' = [pc EXCEPT ![t] = IF r.returns THEN "done" ELSE "stuck"]
          /\ call' = [call EXCEPT ![t].src = IF r.returns THEN "loader" ELSE "",
                                  ![t].wrote = @ \/ (r.c # lru)]
    /\ UNCHANGED <<last, cacheBytes, peers, prev, attaches, panicked, registryVars, ringVars, nodeVars>>

\* the caller has its result and may call again
Return(t) ==
    /\ ~panicked
    /\ pc[t] = "done"
    /\ pc' = [pc EXCEPT ![t] = "idle"]
    /\ call' = [call EXCEPT ![t] = IdleCall]
    /\ UNCHANGED <<lruVars, cacheBytes, peers, prev, attaches, panicked, registryVars, ringVars, nodeVars>>

\* Group.RegisterPeers, lines 78-80: the test of g.peers; a picker already there panics
RegisterPeers(t, p) ==
    /\ ~panicked
    /\ pc[t] = "idle"
    /\ IF peers # NIL
       THEN /\ panicked' = TRUE
            /\ pc' = [pc EXCEPT ![t] = "panic"]
       ELSE /\ pc' = [pc EXCEPT ![t] = "registerPeers"]
            /\ UNCHANGED panicked
    /\ call' = [call EXCEPT ![t] = [IdleCall EXCEPT !.op = "RegisterPeers", !.picker = p]]
    /\ UNCHANGED <<lruVars, cacheBytes, peers, prev, attaches, registryVars, ringVars, nodeVars>>

\* Group.RegisterPeers, line 81: g.peers = peers
RegisterPeersAssign(t) ==
    /\ ~panicked
    /\ pc[t] = "registerPeers"
    /\ peers' = call[t].picker
    /\ attaches' = attaches + 1
    /\ pc' = [pc EXCEPT ![t] = "done"]
    /\ UNCHANGED <<lruVars, cacheBytes, call, prev, panicked, registryVars, ringVars, nodeVars>>

NextGroup ==
    \/ \E t \in Threads, key \in GetKeys : GroupGet(t, key)
    \/ \E t \in Threads : MainCacheGet(t)
    \/ \E t \in Threads : Load(t)
    \/ \E t \in Threads : GetFromPeer(t)
    \/ \E t \in Threads : GetLocally(t)
    \/ \E t \in Threads : PopulateCache(t)
    \/ \E t \in Threads : Return(t)
    \/ \E t \in Threads, p \in Pickers : RegisterPeers(t, p)
    \/ \E t \in Threads : RegisterPeersAssign(t)

SpecGroup == InitGroup /\ [][NextGroup]_vars

-----------------------------------------------------------------------------
(* One caller making its calls in sequence, as TestGet does *)

Caller == 1

\* the caller has its result; a finished Get is remembered as the previous call
ReturnSeq(t) ==
    /\ ~panicked
    /\ pc[t] = "done"
    /\ pc' = [pc EXCEPT ![t] = "idle"]
    /\ prev' = IF call[t].op = "Get" THEN call[t] ELSE prev
    /\ call' = [call EXCEPT ![t] = IdleCall]
    /\ UNCHANGED <<lruVars, cacheBytes, peers, attaches, panicked, registryVars, ringVars, nodeVars>>

NextSeq ==
    \/ \E key \in GetKeys : GroupGet(Caller, key)
    \/ MainCacheGet(Caller)
    \/ Load(Caller)
    \/ GetFromPeer(Caller)
    \/ GetLocally(Caller)
    \/ PopulateCache(Caller)
    \/ ReturnSeq(Caller)
    \/ \E p \in Pickers : RegisterPeers(Caller, p)
    \/ RegisterPeersAssign(Caller)

SpecSeq == InitGroup /\ [][NextSeq]_vars

-----------------------------------------------------------------------------
(* geecache.go: NewGroup and GetGroup on the process-wide registry *)

\* number of NewGroup calls that construct a group
MaxGroups == 3

\* 2<<10, the capacity main.go and the tests create the group with
DefaultCacheBytes == 2048

GroupNames == {"scores", "scores111"}
NewGroupBytes == {0, DefaultCacheBytes}
\* the getter argument of NewGroup: nil or a GetterFunc
Getters == {NIL, "GetterFunc"}

\* the nil *Group; a *Group is its position in created
NilGroup == 0

\* lookup before any GetGroup; at is the number of groups constructed before the call
NoLookup == [name |-> "", g |-> NilGroup, made |-> FALSE, at |-> 0]

InitRegistry ==
    /\ groups = <<>>
    /\ created = <<>>
    /\ lookup = NoLookup
    /\ panicked = FALSE
    /\ lru = NilCache
    /\ hung = FALSE
    /\ last = NoOp
    /\ IdleGroup
    /\ IdleRing
    /\ IdleNode

\* NewGroup that leaves a name that is already registered to its first group
NewGroupKeepsFirst(name, bytes, getter) ==
    /\ ~panicked
    /\ Len(created) < MaxGroups
    /\ IF getter = NIL
       THEN /\ panicked' = TRUE
            /\ UNCHANGED <<groups, created, netVars>>
       ELSE /\ created' = Append(created, [name |-> name, getter |-> getter,
                                           cacheBytes |-> bytes, lru |-> NilCache])
            /\ groups' = IF name \in DOMAIN groups THEN groups
                         ELSE MapPut(groups, name, Len(created) + 1)
            /\ UNCHANGED panicked
    /\ UNCHANGED <<lookup, lruVars, groupVars, ringVars, nodeVars>>

\* NewGroup: a nil getter panics before the lock is taken; otherwise the new Group is
\* built and stored under its name while mu is held for writing
NewGroup(name, bytes, getter) ==
    /\ ~panicked
    /\ Len(created) < MaxGroups
    /\ IF getter = NIL
       THEN /\ panicked' = TRUE
            /\ UNCHANGED <<groups, created, netVars>>
       ELSE /\ created' = Append(created, [name |-> name, getter |-> getter,
                                           cacheBytes |-> bytes, lru |-> NilCache])
            /\ groups' = MapPut(groups, name, Len(created) + 1)
            /\ UNCHANGED panicked
    /\ UNCHANGED <<lookup, lruVars, groupVars, ringVars, nodeVars>>

\* the value of groups[name] that GetGroup reads while mu is held for reading
GroupsAt(name) == IF name \in DOMAIN groups THEN groups[name] ELSE NilGroup

\* GetGroup
GetGroup(name) ==
    /\ ~panicked
    /\ lookup' = [name |-> name, g |-> GroupsAt(name), made |-> TRUE,
                  at |-> Len(created)]
    /\ UNCHANGED <<groups, created, panicked, lruVars, groupVars, ringVars, nodeVars>>

NextRegistry ==
    \/ \E name \in GroupNames, bytes \in NewGroupBytes, getter \in Getters :
          NewGroup(name, bytes, getter)
    \/ \E name \in GroupNames : GetGroup(name)

SpecRegistry == InitRegistry /\ [][NextRegistry]_vars

-----------------------------------------------------------------------------
(* consistenthash/consistenthash.go *)

\* largest replica count a ring is constructed with
MaxReplicas == 2
\* largest number of peers handed to one ring, over all its Add calls
MaxFed == 2

\* peer identifiers, and the keys looked up
RingPeers == {"2", "12"}
RingKeys == {"2", "11", "23", "300"}

Digits == <<"0", "1", "2", "3", "4", "5", "6", "7", "8", "9">>

\* strconv.Itoa(i) for the replica indices
RECURSIVE Itoa(_)
Itoa(i) == IF i < 10 THEN Digits[i + 1] ELSE Itoa(i \div 10) \o Digits[(i % 10) + 1]

\* crc32.ChecksumIEEE on the virtual-node labels and keys of the model, halved: the
\* uint32 values exceed the model checker's integers, and halving keeps their order
\* and keeps them distinct
crc32Half ==
    "2" :> 225107718 @@ "02" :> 723794630 @@ "04" :> 1603659868 @@
    "11" :> 1798113979 @@ "12" :> 665428582 @@ "14" :> 1394110716 @@
    "22" :> 842992519 @@ "23" :> 163353548 @@ "24" :> 1183766813 @@
    "27" :> 168456640 @@ "32" :> 1051890471 @@ "34" :> 1241727421 @@
    "42" :> 420632644 @@ "44" :> 1839434462 @@ "012" :> 1792030040 @@
    "112" :> 1781596227 @@ "212" :> 1796366191 @@ "300" :> 276415042 @@
    "312" :> 1811114612 @@ "412" :> 1767170358
\* a Hash handed to New that reads the bytes as a decimal number (strconv.Atoi)
atoi ==
    "2" :> 2 @@ "02" :> 2 @@ "04" :> 4 @@ "11" :> 11 @@ "12" :> 12 @@ "14" :> 14 @@
    "22" :> 22 @@ "23" :> 23 @@ "24" :> 24 @@ "27" :> 27 @@ "32" :> 32 @@ "34" :> 34 @@
    "42" :> 42 @@ "44" :> 44 @@ "012" :> 12 @@ "112" :> 112 @@ "212" :> 212 @@
    "300" :> 300 @@ "312" :> 312 @@ "412" :> 412

\* the Hash values New accepts: nil (crc32.ChecksumIEEE is used) or a function
Hashes == {"crc32", "atoi"}

\* crc32.ChecksumIEEE, halved, on the keys of the database and on the virtual-node
\* labels under defaultReplicas of the three node addresses of main.go and of two
\* addresses of a private network, eight of whose labels have the same checksum
\* ("18http://192.168.19.247:8001" and "3http://192.168.32.100:8001", ...)
crc32HalfURL ==
    "Tom" :> 583604985 @@ "Jack" :> 69477235 @@ "Sam" :> 1865353084 @@
    "kkk" :> 1943370679 @@ "0http://localhost:8001" :> 45273112 @@
    "1http://localhost:8001" :> 153543288 @@ "2http://localhost:8001" :> 362460376 @@
    "3http://localhost:8001" :> 504268472 @@ "4http://localhost:8001" :> 753015192 @@
    "5http://localhost:8001" :> 662055928 @@ "6http://localhost:8001" :> 1003126104 @@
    "7http://localhost:8001" :> 811487032 @@ "8http://localhost:8001" :> 1578320664 @@
    "9http://localhost:8001" :> 1434939768 @@ "10http://localhost:8001" :> 595864266 @@
    "11http://localhost:8001" :> 672143530 @@ "12http://localhost:8001" :> 883707402 @@
    "13http://localhost:8001" :> 1060666474 @@ "14http://localhost:8001" :> 232055626 @@
    "15http://localhost:8001" :> 104911146 @@ "16http://localhost:8001" :> 452757386 @@
    "17http://localhost:8001" :> 292074986 @@ "18http://localhost:8001" :> 2133178826 @@
    "19http://localhost:8001" :> 1957792682 @@ "20http://localhost:8001" :> 418821716 @@
    "21http://localhost:8001" :> 325223476 @@ "22http://localhost:8001" :> 266261140 @@
    "23http://localhost:8001" :> 72016116 @@ "24http://localhost:8001" :> 916881364 @@
    "25http://localhost:8001" :> 1026706868 @@ "26http://localhost:8001" :> 562961172 @@
    "27http://localhost:8001" :> 706357620 @@ "28http://localhost:8001" :> 1146561876 @@
    "29http://localhost:8001" :> 1338185524 @@ "30http://localhost:8001" :> 1431257918 @@
    "31http://localhost:8001" :> 1591439710 @@ "32http://localhost:8001" :> 1114056702 @@
    "33http://localhost:8001" :> 1240667550 @@ "34http://localhost:8001" :> 2065664702 @@
    "35http://localhost:8001" :> 1888205022 @@ "36http://localhost:8001" :> 1815604862 @@
    "37http://localhost:8001" :> 1738791966 @@ "38http://localhost:8001" :> 166645822 @@
    "39http://localhost:8001" :> 41607774 @@ "40http://localhost:8001" :> 1846775657 @@
    "41http://localhost:8001" :> 1703394569 @@ "42http://localhost:8001" :> 2033970089 @@
    "43http://localhost:8001" :> 1924127177 @@ "44http://localhost:8001" :> 1078150889 @@
    "45http://localhost:8001" :> 1272411273 @@ "46http://localhost:8001" :> 1466638889 @@
    "47http://localhost:8001" :> 1560219721 @@ "48http://localhost:8001" :> 850533481 @@
    "49http://localhost:8001" :> 958803465 @@ "0http://localhost:8002" :> 1312192709 @@
    "1http://localhost:8002" :> 1168263845 @@ "2http://localhost:8002" :> 1495145477 @@
    "3http://localhost:8002" :> 1384787557 @@ "4http://localhost:8002" :> 1617342789 @@
    "5http://localhost:8002" :> 1811055397 @@ "6http://localhost:8002" :> 2001655173 @@
    "7http://localhost:8002" :> 2094720997 @@ "8http://localhost:8002" :> 311946181 @@
    "9http://localhost:8002" :> 419682725 @@ "10http://localhost:8002" :> 1862304279 @@
    "11http://localhost:8002" :> 1687466103 @@ "12http://localhost:8002" :> 2015946455 @@
    "13http://localhost:8002" :> 1941755063 @@ "14http://localhost:8002" :> 1095781271 @@
    "15http://localhost:8002" :> 1254390263 @@ "16http://localhost:8002" :> 1450717015 @@
    "17http://localhost:8002" :> 1575755063 @@ "18http://localhost:8002" :> 866193687 @@
    "19http://localhost:8002" :> 943006583 @@ "20http://localhost:8002" :> 1416765065 @@
    "21http://localhost:8002" :> 1608920297 @@ "22http://localhost:8002" :> 1130003017 @@
    "23http://localhost:8002" :> 1221478441 @@ "24http://localhost:8002" :> 2049103625 @@
    "25http://localhost:8002" :> 1907811689 @@ "26http://localhost:8002" :> 1829417929 @@
    "27http://localhost:8002" :> 1721663913 @@ "28http://localhost:8002" :> 148082057 @@
    "29http://localhost:8002" :> 55033833 @@ "30http://localhost:8002" :> 432794595 @@
    "31http://localhost:8002" :> 308271491 @@ "32http://localhost:8002" :> 249794339 @@
    "33http://localhost:8002" :> 91733315 @@ "34http://localhost:8002" :> 932913763 @@
    "35http://localhost:8002" :> 1007620099 @@ "36http://localhost:8002" :> 548619939 @@
    "37http://localhost:8002" :> 724006083 @@ "38http://localhost:8002" :> 1164605667 @@
    "39http://localhost:8002" :> 1325288067 @@ "40http://localhost:8002" :> 580331444 @@
    "41http://localhost:8002" :> 688068052 @@ "42http://localhost:8002" :> 901727092 @@
    "43http://localhost:8002" :> 1043034388 @@ "44http://localhost:8002" :> 214429236 @@
    "45http://localhost:8002" :> 122936404 @@ "46http://localhost:8002" :> 468683508 @@
    "47http://localhost:8002" :> 276543636 @@ "48http://localhost:8002" :> 2117514420 @@
    "49http://localhost:8002" :> 1973585620 @@ "0http://localhost:8003" :> 1974853774 @@
    "1http://localhost:8003" :> 2116145902 @@ "2http://localhost:8003" :> 1654490190 @@
    "3http://localhost:8003" :> 1762244142 @@ "4http://localhost:8003" :> 1541744910 @@
    "5http://localhost:8003" :> 1349589870 @@ "6http://localhost:8003" :> 1288523214 @@
    "7http://localhost:8003" :> 1197047726 @@ "8http://localhost:8003" :> 689206158 @@
    "9http://localhost:8003" :> 578830830 @@ "10http://localhost:8003" :> 1417878108 @@
    "11http://localhost:8003" :> 1595353148 @@ "12http://localhost:8003" :> 1135312540 @@
    "13http://localhost:8003" :> 1212108028 @@ "14http://localhost:8003" :> 2060702684 @@
    "15http://localhost:8003" :> 1900536252 @@ "16http://localhost:8003" :> 1845212956 @@
    "17http://localhost:8003" :> 1718584700 @@ "18http://localhost:8003" :> 136481116 @@
    "19http://localhost:8003" :> 62307132 @@ "20http://localhost:8003" :> 1878099650 @@
    "21http://localhost:8003" :> 1684386978 @@ "22http://localhost:8003" :> 2027545090 @@
    "23http://localhost:8003" :> 1934479458 @@ "24http://localhost:8003" :> 1101090626 @@
    "25http://localhost:8003" :> 1245019426 @@ "26http://localhost:8003" :> 1451830146 @@
    "27http://localhost:8003" :> 1562188258 @@ "28http://localhost:8003" :> 860886466 @@
    "29http://localhost:8003" :> 952379298 @@ "30http://localhost:8003" :> 575173544 @@
    "31http://localhost:8003" :> 702300616 @@ "32http://localhost:8003" :> 895489896 @@
    "33http://localhost:8003" :> 1056187656 @@ "34http://localhost:8003" :> 202947112 @@
    "35http://localhost:8003" :> 126650440 @@ "36http://localhost:8003" :> 456187624 @@
    "37http://localhost:8003" :> 279243912 @@ "38http://localhost:8003" :> 2129256616 @@
    "39http://localhost:8003" :> 1971180232 @@ "40http://localhost:8003" :> 420790271 @@
    "41http://localhost:8003" :> 310414751 @@ "42http://localhost:8003" :> 238869311 @@
    "43http://localhost:8003" :> 94955871 @@ "44http://localhost:8003" :> 927233663 @@
    "45http://localhost:8003" :> 1020281887 @@ "46http://localhost:8003" :> 543953599 @@
    "47http://localhost:8003" :> 737681631 @@ "48http://localhost:8003" :> 1169501439 @@
    "49http://localhost:8003" :> 1310793375 @@
    "0http://192.168.19.247:8001" :> 984736730 @@ "1http://192.168.19.247:8001" :> 234352250 @@
    "2http://192.168.19.247:8001" :> 1413347483 @@ "3http://192.168.19.247:8001" :> 1669068091 @@
    "4http://192.168.19.247:8001" :> 168908408 @@ "5http://192.168.19.247:8001" :> 1029135320 @@
    "6http://192.168.19.247:8001" :> 1688030521 @@ "7http://192.168.19.247:8001" :> 1406877849 @@
    "8http://192.168.19.247:8001" :> 1542490271 @@ "9http://192.168.19.247:8001" :> 1823900991 @@
    "10http://192.168.19.247:8001" :> 1637758657 @@ "11http://192.168.19.247:8001" :> 1457011553 @@
    "12http://192.168.19.247:8001" :> 252849536 @@ "13http://192.168.19.247:8001" :> 945037344 @@
    "14http://192.168.19.247:8001" :> 1363051363 @@ "15http://192.168.19.247:8001" :> 1719176899 @@
    "16http://192.168.19.247:8001" :> 1068668962 @@ "17http://192.168.19.247:8001" :> 150246786 @@
    "18http://192.168.19.247:8001" :> 14638468 @@ "19http://192.168.19.247:8001" :> 932794404 @@
    "20http://192.168.19.247:8001" :> 1626420562 @@ "21http://192.168.19.247:8001" :> 1471625458 @@
    "22http://192.168.19.247:8001" :> 243084819 @@ "23http://192.168.19.247:8001" :> 960177075 @@
    "24http://192.168.19.247:8001" :> 1347518704 @@ "25http://192.168.19.247:8001" :> 1729596752 @@
    "26http://192.168.19.247:8001" :> 1054710705 @@ "27http://192.168.19.247:8001" :> 161191441 @@
    "28http://192.168.19.247:8001" :> 28335639 @@ "29http://192.168.19.247:8001" :> 922112951 @@
    "30http://192.168.19.247:8001" :> 1613482972 @@ "31http://192.168.19.247:8001" :> 1466812028 @@
    "32http://192.168.19.247:8001" :> 245878941 @@ "33http://192.168.19.247:8001" :> 971103549 @@
    "34http://192.168.19.247:8001" :> 1351319166 @@ "35http://192.168.19.247:8001" :> 1741517790 @@
    "36http://192.168.19.247:8001" :> 1040672063 @@ "37http://192.168.19.247:8001" :> 155281567 @@
    "38http://192.168.19.247:8001" :> 23765145 @@ "39http://192.168.19.247:8001" :> 908897593 @@
    "40http://192.168.19.247:8001" :> 1647260277 @@ "41http://192.168.19.247:8001" :> 1432960981 @@
    "42http://192.168.19.247:8001" :> 212019508 @@ "43http://192.168.19.247:8001" :> 1004872852 @@
    "44http://192.168.19.247:8001" :> 1385138135 @@ "45http://192.168.19.247:8001" :> 1707706999 @@
    "46http://192.168.19.247:8001" :> 1006869654 @@ "47http://192.168.19.247:8001" :> 189108534 @@
    "48http://192.168.19.247:8001" :> 57563440 @@ "49http://192.168.19.247:8001" :> 875058320 @@
    "0http://192.168.32.100:8001" :> 1494567781 @@ "1http://192.168.32.100:8001" :> 1850951365 @@
    "2http://192.168.32.100:8001" :> 932794404 @@ "3http://192.168.32.100:8001" :> 14638468 @@
    "4http://192.168.32.100:8001" :> 1773534919 @@ "5http://192.168.32.100:8001" :> 1593045863 @@
    "6http://192.168.32.100:8001" :> 121234822 @@ "7http://192.168.32.100:8001" :> 813688870 @@
    "8http://192.168.32.100:8001" :> 945037344 @@ "9http://192.168.32.100:8001" :> 252849536 @@
    "10http://192.168.32.100:8001" :> 37396094 @@ "11http://192.168.32.100:8001" :> 897356766 @@
    "12http://192.168.32.100:8001" :> 1823900991 @@ "13http://192.168.32.100:8001" :> 1542490271 @@
    "14http://192.168.32.100:8001" :> 848964572 @@ "15http://192.168.32.100:8001" :> 98313852 @@
    "16http://192.168.32.100:8001" :> 1544958109 @@ "17http://192.168.32.100:8001" :> 1800420669 @@
    "18http://192.168.32.100:8001" :> 1669068091 @@ "19http://192.168.32.100:8001" :> 1413347483 @@
    "20http://192.168.32.100:8001" :> 55942637 @@ "21http://192.168.32.100:8001" :> 873697357 @@
    "22http://192.168.32.100:8001" :> 1842972332 @@ "23http://192.168.32.100:8001" :> 1520405260 @@
    "24http://192.168.32.100:8001" :> 871704655 @@ "25http://192.168.32.100:8001" :> 78849519 @@
    "26http://192.168.32.100:8001" :> 1568224014 @@ "27http://192.168.32.100:8001" :> 1782529710 @@
    "28http://192.168.32.100:8001" :> 1645541032 @@ "29http://192.168.32.100:8001" :> 1431501576 @@
    "30http://192.168.32.100:8001" :> 59728739 @@ "31http://192.168.32.100:8001" :> 885616323 @@
    "32http://192.168.32.100:8001" :> 1828943906 @@ "33http://192.168.32.100:8001" :> 1514501506 @@
    "34http://192.168.32.100:8001" :> 858773185 @@ "35http://192.168.32.100:8001" :> 74046305 @@
    "36http://192.168.32.100:8001" :> 1571016064 @@ "37http://192.168.32.100:8001" :> 1793441824 @@
    "38http://192.168.32.100:8001" :> 1657669670 @@ "39http://192.168.32.100:8001" :> 1434977670 @@
    "40http://192.168.32.100:8001" :> 25926346 @@ "41http://192.168.32.100:8001" :> 919443306 @@
    "42http://192.168.32.100:8001" :> 1862762891 @@ "43http://192.168.32.100:8001" :> 1480690731 @@
    "44http://192.168.32.100:8001" :> 824913768 @@ "45http://192.168.32.100:8001" :> 107815624 @@
    "46http://192.168.32.100:8001" :> 1604793385 @@ "47http://192.168.32.100:8001" :> 1759590793 @@
    "48http://192.168.32.100:8001" :> 1623912847 @@ "49http://192.168.32.100:8001" :> 1468857391

\* m.hash(data)
Hash(fn, data) ==
    IF fn = "crc32"
    THEN IF data \in DOMAIN crc32Half THEN crc32Half[data] ELSE crc32HalfURL[data]
    ELSE atoi[data]

\* consistenthash.New
MapNew(replicas, fn) ==
    [replicas |-> replicas, hash |-> fn, keys |-> <<>>, hashMap |-> <<>>]

\* sort.Ints: the values below the first one, sorted, then the first one, then the
\* rest, sorted
RECURSIVE SortInts(_)
SortInts(a) ==
    IF Len(a) <= 1 THEN a
    ELSE SortInts(SelectSeq(Tail(a), LAMBDA x : x < Head(a)))
            \o <<Head(a)>>
            \o SortInts(SelectSeq(Tail(a), LAMBDA x : x >= Head(a)))

\* the body of the inner loop that leaves out a hash the ring already holds
AddReplicaUnique(m, key, i) ==
    LET hash == Hash(m.hash, Itoa(i) \o key)
    IN IF hash \in DOMAIN m.hashMap THEN [m EXCEPT !.hashMap = MapPut(m.hashMap, hash, key)]
       ELSE [m EXCEPT !.keys = Append(m.keys, hash),
                      !.hashMap = MapPut(m.hashMap, hash, key)]

\* the body of the inner loop of Map.Add for replica i of peer key (lines 43-47)
AddReplica(m, key, i) ==
    LET hash == Hash(m.hash, Itoa(i) \o key)
    IN [m EXCEPT !.keys = Append(m.keys, hash),
                 !.hashMap = MapPut(m.hashMap, hash, key)]

\* the inner loop of Map.Add for one peer, from replica i on (lines 41-48)
RECURSIVE AddReplicas(_, _, _)
AddReplicas(m, key, i) ==
    IF i < m.replicas THEN AddReplicas(AddReplica(m, key, i), key, i + 1) ELSE m

\* the outer loop of Map.Add (lines 39-49)
RECURSIVE AddPeers(_, _)
AddPeers(m, keys) ==
    IF keys = <<>> THEN m
    ELSE AddPeers(AddReplicas(m, Head(keys), 0), Tail(keys))

\* Map.Add that builds the ring from the peers of this call alone
MapAddReplaces(m, keys) ==
    LET added == AddPeers(MapNew(m.replicas, m.hash), keys)
    IN [added EXCEPT !.keys = SortInts(added.keys)]

\* Map.Add
MapAdd(m, keys) ==
    LET added == AddPeers(m, keys)
    IN [added EXCEPT !.keys = SortInts(added.keys)]

\* the binary search for the first index whose hash is strictly greater than hash
RECURSIVE SearchAfter(_, _, _, _)
SearchAfter(keys, hash, i, j) ==
    IF i < j
    THEN LET h == (i + j) \div 2
         IN IF ~(keys[h + 1] > hash) THEN SearchAfter(keys, hash, h + 1, j)
            ELSE SearchAfter(keys, hash, i, h)
    ELSE i

\* sort.Search(n, f) with f(i) = keys[i] >= hash: the binary search on [i, j), 0-based
RECURSIVE Search(_, _, _, _)
Search(keys, hash, i, j) ==
    IF i < j
    THEN LET h == (i + j) \div 2
         IN IF ~(keys[h + 1] >= hash) THEN Search(keys, hash, h + 1, j)
            ELSE Search(keys, hash, i, h)
    ELSE i

\* Map.Get
MapGet(m, key) ==
    IF Len(m.keys) = 0 THEN ""
    ELSE LET hash == Hash(m.hash, key)
             idx == Search(m.keys, hash, 0, Len(m.keys))
         IN m.hashMap[m.keys[(idx % Len(m.keys)) + 1]]

Rings == {1, 2}

\* the argument lists of one Add call: one peer, or two
Batches == {<<p>> : p \in RingPeers} \cup {<<p, q>> : p \in RingPeers, q \in RingPeers}

NoPick == [made |-> FALSE, r |-> 0, key |-> "", at |-> 0, peer |-> ""]

InitRing ==
    /\ \E replicas \in 1..MaxReplicas, fn \in Hashes :
          ring = [r \in Rings |-> MapNew(replicas, fn)]
    /\ fed = [r \in Rings |-> <<>>]
    /\ adds = [r \in Rings |-> 0]
    /\ picked = NoPick
    /\ panicked = FALSE
    /\ lru = NilCache
    /\ hung = FALSE
    /\ last = NoOp
    /\ IdleGroup
    /\ IdleRegistry
    /\ IdleNode

\* m.Add(keys...) on ring r
RingAdd(r, keys) ==
    /\ Len(fed[r]) + Len(keys) <= MaxFed
    /\ ring' = [ring EXCEPT ![r] = MapAdd(ring[r], keys)]
    /\ fed' = [fed EXCEPT ![r] = fed[r] \o keys]
    /\ adds' = [adds EXCEPT ![r] = @ + 1]
    /\ UNCHANGED <<picked, lruVars, groupVars, registryVars, panicked, nodeVars>>

\* m.Get(key) on ring r
RingGet(r, key) ==
    /\ picked' = [made |-> TRUE, r |-> r, key |-> key, at |-> Len(fed[r]),
                  peer |-> MapGet(ring[r], key)]
    /\ UNCHANGED <<ring, fed, adds, lruVars, groupVars, registryVars, panicked, nodeVars>>

NextRing ==
    \/ \E r \in Rings, keys \in Batches : RingAdd(r, keys)
    \/ \E r \in Rings, key \in RingKeys : RingGet(r, key)

SpecRing == InitRing /\ [][NextRing]_vars

-----------------------------------------------------------------------------
(* http.go: HTTPPool *)

defaultBasePath == "/_geecache/"
defaultReplicas == 50

\* longest peer list handed to one Set call
MaxPeers == 2

\* the node addresses of main.go (addrMap)
Addrs == {"http://localhost:8001", "http://localhost:8002", "http://localhost:8003"}
\* the keys PickPeer is asked about
PoolKeys == {"Tom", "Jack", "Sam", "kkk"}

\* the nil *consistenthash.Map of a pool Set was never called on
NilMap == [nil |-> TRUE]
\* the nil PeerGetter
NilGetter == [nil |-> TRUE]

\* NewHTTPPool: peers and httpGetters are left at their zero values
NewHTTPPool(self) ==
    [self |-> self, basePath |-> defaultBasePath, peers |-> NilMap, httpGetters |-> <<>>]

\* HTTPPool.Set: a new ring of the peers given, and one httpGetter per peer
Set(p, peerList) ==
    [p EXCEPT !.peers = MapAdd(MapNew(defaultReplicas, "crc32"), peerList),
              !.httpGetters = [peer \in {peerList[i] : i \in 1..Len(peerList)} |->
                                  [baseURL |-> peer \o p.basePath]]]

\* HTTPPool.PickPeer: p.peers.Get(key) dereferences p.peers, so on a pool without a
\* ring it faults; otherwise the peer's getter unless the peer is "" or the node itself
PickPeer(p, key) ==
    IF p.peers = NilMap
    THEN [peer |-> "", getter |-> NilGetter, ok |-> FALSE, fault |-> TRUE]
    ELSE LET peer == MapGet(p.peers, key)
         IN IF peer # "" /\ peer # p.self
            THEN [peer |-> peer, getter |-> p.httpGetters[peer], ok |-> TRUE,
                  fault |-> FALSE]
            ELSE [peer |-> peer, getter |-> NilGetter, ok |-> FALSE, fault |-> FALSE]

\* the argument lists of Set: up to MaxPeers addresses, each at most once
PeerLists ==
    {l \in UNION {[1..n -> Addrs] : n \in 0..MaxPeers} :
        \A i \in DOMAIN l, j \in DOMAIN l : i # j => l[i] # l[j]}

NoPoolPick == [made |-> FALSE, key |-> "", peer |-> "", ok |-> FALSE, fault |-> FALSE,
               getter |-> NilGetter]

InitPool ==
    /\ \E self \in Addrs : pool = NewHTTPPool(self)
    /\ lastPick = NoPoolPick
    /\ panicked = FALSE
    /\ lru = NilCache
    /\ hung = FALSE
    /\ last = NoOp
    /\ IdleGroup
    /\ IdleRegistry
    /\ IdleRing
    /\ IdleLock
    /\ IdleServer
    /\ IdleMain
    /\ IdleNet

\* p.Set(peers...)
PoolSet(peerList) ==
    /\ pool' = Set(pool, peerList)
    /\ UNCHANGED <<lastPick, lruVars, groupVars, registryVars, ringVars, panicked,
                   lockVars, req, boot, netVars>>

\* p.PickPeer(key); the fault is a panic of the calling goroutine, recovered by the
\* HTTP server that runs the handler
PoolPickPeer(key) ==
    /\ LET r == PickPeer(pool, key)
       IN lastPick' = [made |-> TRUE, key |-> key, peer |-> r.peer, ok |-> r.ok,
                       fault |-> r.fault, getter |-> r.getter]
    /\ UNCHANGED <<pool, lruVars, groupVars, registryVars, ringVars, panicked,
                   lockVars, req, boot, netVars>>

NextPool ==
    \/ \E peerList \in PeerLists : PoolSet(peerList)
    \/ \E key \in PoolKeys : PoolPickPeer(key)

SpecPool == InitPool /\ [][NextPool]_vars

-----------------------------------------------------------------------------
(* http.go: HTTPPool.ServeHTTP, one handler serving one request after another *)

\* longest request path after the base path, in pieces
MaxPathLen == 5

\* the pieces request paths are made of: a group name, a key, the separator
Atoms == {"scores", "Tom", "/"}

\* r.URL.Path[len(p.basePath):] of the requests under the base path, as the sequence
\* of its pieces
Rests == UNION {[1..n -> Atoms] : n \in 0..MaxPathLen}

\* the requests: one whose path lacks the base path, and those under it
Requests ==
    {[prefixed |-> FALSE, rest |-> <<>>]} \cup {[prefixed |-> TRUE, rest |-> a] : a \in Rests}

\* the string a sequence of pieces stands for
RECURSIVE Join(_)
Join(a) == IF a = <<>> THEN "" ELSE Head(a) \o Join(Tail(a))

\* strings.Index(s, "/"), counted in pieces from 1; 0 when there is no separator
IndexSep(a) ==
    IF \E i \in 1..Len(a) : a[i] = "/"
    THEN CHOOSE i \in 1..Len(a) : a[i] = "/" /\ \A j \in 1..(i - 1) : a[j] # "/"
    ELSE 0

\* strings.Split(s, "/"): every separator splits
RECURSIVE SplitAll(_)
SplitAll(a) ==
    IF IndexSep(a) = 0 THEN <<Join(a)>>
    ELSE <<Join(SubSeq(a, 1, IndexSep(a) - 1))>> \o SplitAll(SubSeq(a, IndexSep(a) + 1, Len(a)))

\* strings.SplitN(s, "/", 2): the first separator splits, the rest stays in the second part
SplitN2(a) ==
    IF IndexSep(a) = 0 THEN <<Join(a)>>
    ELSE <<Join(SubSeq(a, 1, IndexSep(a) - 1)), Join(SubSeq(a, IndexSep(a) + 1, Len(a)))>>

NoReq == [state |-> "none", prefixed |-> TRUE, path |-> <<>>, parts |-> <<>>,
          status |-> 0, got |-> FALSE, body |-> ""]

\* the node after main's createGroup: the group "scores" is registered
InitServe ==
    /\ lru = NilCache
    /\ hung = FALSE
    /\ last = NoOp
    /\ cacheBytes = DefaultCacheBytes
    /\ \E p \in {NIL} \cup Pickers : peers = p
    /\ pc = [t \in {Caller} |-> "idle"]
    /\ call = [t \in {Caller} |-> IdleCall]
    /\ prev = IdleCall
    /\ attaches = 0
    /\ panicked = FALSE
    /\ created = <<[name |-> "scores", getter |-> "GetterFunc",
                    cacheBytes |-> DefaultCacheBytes, lru |-> NilCache]>>
    /\ groups = MapPut(<<>>, "scores", 1)
    /\ lookup = NoLookup
    /\ req = NoReq
    /\ IdleRing
    /\ IdleLock
    /\ IdlePool
    /\ IdleMain
    /\ IdleNet

\* ServeHTTP, lines 47-71: the path is checked and split, the group looked up; the
\* panic on a path outside the base path ends the request, not the process
ServeHTTP(r) ==
    /\ ~panicked
    /\ pc[Caller] = "idle"
    /\ req.state # "dispatch"
    /\ req' =
         IF ~r.prefixed
         THEN [NoReq EXCEPT !.state = "panic", !.prefixed = FALSE]
         ELSE LET parts == SplitN2(r.rest)
              IN IF Len(parts) # 2
                 THEN [NoReq EXCEPT !.state = "replied", !.path = r.rest, !.parts = parts,
                                    !.status = 400, !.body = "bad request"]
                 ELSE IF GroupsAt(parts[1]) = NilGroup
                 THEN [NoReq EXCEPT !.state = "replied", !.path = r.rest, !.parts = parts,
                                    !.status = 404,
                                    !.body = "no such group: " \o parts[1]]
                 ELSE [NoReq EXCEPT !.state = "dispatch", !.path = r.rest, !.parts = parts]
    /\ UNCHANGED <<lruVars, groupVars, registryVars, ringVars, panicked, lockVars,
                   poolVars, boot, netVars>>

\* ServeHTTP, line 74: group.Get(key) begins
ServeGet ==
    /\ req.state = "dispatch"
    /\ GroupGet(Caller, req.parts[2])

\* ServeHTTP, lines 74-84: group.Get has returned; its error is answered with 500,
\* its value with 200
ServeReply ==
    /\ ~panicked
    /\ req.state = "dispatch"
    /\ pc[Caller] = "done"
    /\ req' = [req EXCEPT !.state = "replied", !.got = TRUE,
                          !.status = IF call[Caller].err # "" THEN 500 ELSE 200,
                          !.body = IF call[Caller].err # "" THEN call[Caller].err
                                   ELSE call[Caller].value]
    /\ pc' = [pc EXCEPT ![Caller] = "idle"]
    /\ call' = [call EXCEPT ![Caller] = IdleCall]
    /\ UNCHANGED <<lruVars, cacheBytes, peers, prev, attaches, registryVars, ringVars,
                   panicked, lockVars, poolVars, boot, netVars>>

NextServe ==
    \/ \E r \in Requests : ServeHTTP(r)
    \/ ServeGet
    \/ MainCacheGet(Caller)
    \/ Load(Caller)
    \/ GetFromPeer(Caller)
    \/ GetLocally(Caller)
    \/ PopulateCache(Caller)
    \/ ServeReply

SpecServe == InitServe /\ [][NextServe]_vars

-----------------------------------------------------------------------------
(* http.go: one peer fetch, from the URL httpGetter.Get builds to the group name *)
(* and key the handler of the peer extracts; strings are sequences of characters *)

\* longest group name and longest key, in characters
MaxNameLen == 2

\* the characters of group names and keys: a letter, and the characters that are
\* special in a URL
Chars == {"a", " ", "+", "/", "%"}

\* the group names and keys a peer is asked for; Group.Get turns the empty key down
\* before any peer is asked
Names == UNION {[1..n -> Chars] : n \in 1..MaxNameLen}

\* url.QueryEscape on one character: letters stay, a space becomes "+", every other
\* character becomes "%" and its two hexadecimal digits
EscapeChar(c) ==
    CASE c = " " -> <<"+">>
      [] c = "+" -> <<"%", "2", "B">>
      [] c = "/" -> <<"%", "2", "F">>
      [] c = "%" -> <<"%", "2", "5">>
      [] OTHER -> <<c>>

\* url.QueryEscape
RECURSIVE QueryEscape(_)
QueryEscape(a) == IF a = <<>> THEN <<>> ELSE EscapeChar(Head(a)) \o QueryEscape(Tail(a))

\* the character two hexadecimal digits stand for
Unhex(hi, lo) ==
    CASE <<hi, lo>> = <<"2", "0">> -> " "
      [] <<hi, lo>> = <<"2", "B">> -> "+"
      [] <<hi, lo>> = <<"2", "F">> -> "/"
      [] <<hi, lo>> = <<"2", "5">> -> "%"

\* the path of a URL as r.URL.Path has it: "%XX" is decoded, "+" stays "+"
RECURSIVE PathUnescape(_)
PathUnescape(a) ==
    IF a = <<>> THEN <<>>
    ELSE IF Head(a) = "%" THEN <<Unhex(a[2], a[3])>> \o PathUnescape(SubSeq(a, 4, Len(a)))
    ELSE <<Head(a)>> \o PathUnescape(Tail(a))

\* a getter is asked for key of group
InitWire ==
    /\ \E group \in Names, key \in Names :
          wire = [state |-> "asked", group |-> group, key |-> key, u |-> <<>>,
                  path |-> <<>>, parts |-> <<>>]
    /\ fleet = <<>>
    /\ trip = <<>>
    /\ lru = NilCache
    /\ hung = FALSE
    /\ last = NoOp
    /\ panicked = FALSE
    /\ IdleGroup
    /\ IdleRegistry
    /\ IdleRing
    /\ IdleLock
    /\ IdlePool
    /\ IdleServer
    /\ IdleMain

\* httpGetter.Get, lines 132-137: the URL after h.baseURL
GetterGet ==
    /\ wire.state = "asked"
    /\ wire' = [wire EXCEPT !.state = "sent",
                            !.u = QueryEscape(wire.group) \o <<"/">> \o QueryEscape(wire.key)]
    /\ UNCHANGED <<lruVars, groupVars, registryVars, ringVars, panicked, lockVars,
                   poolVars, req, boot, fleet, trip>>

\* httpGetter.Get, line 140, and the server in front of ServeHTTP: the request arrives
\* with the path unescaped in r.URL.Path
Arrive ==
    /\ wire.state = "sent"
    /\ wire' = [wire EXCEPT !.state = "arrived", !.path = PathUnescape(wire.u)]
    /\ UNCHANGED <<lruVars, groupVars, registryVars, ringVars, panicked, lockVars,
                   poolVars, req, boot, fleet, trip>>

\* ServeHTTP, lines 47-63: the path begins with the base path; what follows is split
\* into group name and key
ServeSplit ==
    /\ wire.state = "arrived"
    /\ wire' = [wire EXCEPT !.state = IF Len(SplitN2(wire.path)) # 2 THEN "bad request"
                                      ELSE "split",
                            !.parts = SplitN2(wire.path)]
    /\ UNCHANGED <<lruVars, groupVars, registryVars, ringVars, panicked, lockVars,
                   poolVars, req, boot, fleet, trip>>

NextWire ==
    \/ GetterGet
    \/ Arrive
    \/ ServeSplit

SpecWire == InitWire /\ [][NextWire]_vars

-----------------------------------------------------------------------------
(* cache.go: mainCache.get and mainCache.add step by step: c.mu.Lock(), the call *)
(* into the LRU store, and the deferred c.mu.Unlock()                            *)

\* the capacities the group is created with: negative, unbounded, room for one row
LockCapacities == {-1, 0, 8}

InitLock ==
    /\ lru = NilCache
    /\ hung = FALSE
    /\ last = NoOp
    /\ \E b \in LockCapacities : cacheBytes = b
    /\ peers = NIL
    /\ pc = [t \in Threads |-> "idle"]
    /\ call = [t \in Threads |-> IdleCall]
    /\ prev = IdleCall
    /\ attaches = 0
    /\ panicked = FALSE
    /\ mu = 0
    /\ crit = [t \in Threads |-> "out"]
    /\ IdleRegistry
    /\ IdleRing
    /\ IdlePool
    /\ IdleServer
    /\ IdleMain
    /\ IdleNet

\* a Lock that does not wait for the mutex to be free
LockNoWait(t) ==
    /\ ~panicked
    /\ pc[t] \in {"get", "populateCache"}
    /\ crit[t] = "out"
    /\ mu' = t
    /\ crit' = [crit EXCEPT ![t] = "in"]
    /\ UNCHANGED <<lruVars, groupVars, registryVars, ringVars, panicked, poolVars, req, boot, netVars>>

\* c.mu.Lock() at the start of cache.add and cache.get: waits until the mutex is free
Lock(t) ==
    /\ ~panicked
    /\ pc[t] \in {"get", "populateCache"}
    /\ crit[t] = "out"
    /\ mu = 0
    /\ mu' = t
    /\ crit' = [crit EXCEPT ![t] = "in"]
    /\ UNCHANGED <<lruVars, groupVars, registryVars, ringVars, panicked, poolVars, req, boot, netVars>>

\* cache.get after the Lock: c.lru.Get
LockedGet(t) ==
    /\ crit[t] = "in"
    /\ MainCacheGet(t)

\* cache.add after the Lock: lru.New when the store is nil, and c.lru.Add
LockedAdd(t) ==
    /\ crit[t] = "in"
    /\ PopulateCache(t)

\* the deferred c.mu.Unlock(), run when cache.get or cache.add returns; an Add that
\* never returns never runs it
Unlock(t) ==
    /\ ~panicked
    /\ crit[t] = "in"
    /\ pc[t] \notin {"get", "populateCache", "stuck"}
    /\ mu' = 0
    /\ crit' = [crit EXCEPT ![t] = "out"]
    /\ UNCHANGED <<lruVars, groupVars, registryVars, ringVars, panicked, poolVars, req, boot, netVars>>

\* Group.load, once mainCache.get has returned
LoadUnlocked(t) ==
    /\ crit[t] = "out"
    /\ Load(t)

\* Group.Get returns, once mainCache.get or mainCache.add has returned
ReturnUnlocked(t) ==
    /\ crit[t] = "out"
    /\ Return(t)

NextLock ==
    \/ \E t \in Threads, key \in GetKeys : GroupGet(t, key)
    \/ \E t \in Threads : Lock(t)
    \/ \E t \in Threads : LockedGet(t)
    \/ \E t \in Threads : LockedAdd(t)
    \/ \E t \in Threads : Unlock(t)
    \/ \E t \in Threads : LoadUnlocked(t)
    \/ \E t \in Threads : GetLocally(t)
    \/ \E t \in Threads : ReturnUnlocked(t)

SpecLock == InitLock /\ [][NextLock]_vars

-----------------------------------------------------------------------------
(* geecache.go: concurrent Get calls, each remembering whether it overlapped with *)
(* another one for the same key                                                  *)

\* the Get calls for key that have begun and are not yet at their result
InFlight(key) ==
    {u \in Threads : call[u].op = "Get" /\ call[u].key = key /\ pc[u] \notin {"idle", "done"}}

\* mainCache holds key
Cached(key) == lru # NilCache /\ key \in DOMAIN lru.cache

InitRace ==
    /\ lru = NilCache
    /\ hung = FALSE
    /\ last = NoOp
    /\ \E b \in GroupCapacities : cacheBytes = b
    /\ \E p \in {NIL} \cup Pickers : peers = p
    /\ pc = [t \in Threads |-> "idle"]
    /\ call = [t \in Threads |-> IdleCall]
    /\ prev = IdleCall
    /\ attaches = 0
    /\ panicked = FALSE
    /\ IdleRegistry
    /\ IdleRing
    /\ IdleNode

\* Group.Get, lines 62-64, begun by goroutine t; the calls for the same key that are
\* under way, with the key not in mainCache, are marked as overlapping with it
GroupGetConcurrent(t, key) ==
    /\ ~panicked
    /\ pc[t] = "idle"
    /\ IF key = ""
       THEN /\ pc' = [pc EXCEPT ![t] = "done"]
            /\ call' = [call EXCEPT ![t] = [IdleCall EXCEPT !.op = "Get", !.key = key,
                                                            !.err = ErrKeyRequired]]
       ELSE /\ pc' = [pc EXCEPT ![t] = "get"]
            /\ call' = [u \in Threads |->
                          IF u = t
                          THEN [IdleCall EXCEPT !.op = "Get", !.key = key,
                                                !.conc = InFlight(key) # {} /\ ~Cached(key)]
                          ELSE IF u \in InFlight(key) /\ ~Cached(key)
                          THEN [call[u] EXCEPT !.conc = TRUE]
                          ELSE call[u]]
    /\ UNCHANGED <<lruVars, cacheBytes, peers, prev, attaches, panicked, registryVars, ringVars, nodeVars>>

NextRace ==
    \/ \E t \in Threads, key \in GetKeys : GroupGetConcurrent(t, key)
    \/ \E t \in Threads : MainCacheGet(t)
    \/ \E t \in Threads : Load(t)
    \/ \E t \in Threads : GetFromPeer(t)
    \/ \E t \in Threads : GetLocally(t)
    \/ \E t \in Threads : PopulateCache(t)
    \/ \E t \in Threads : Return(t)

SpecRace == InitRace /\ [][NextRace]_vars

-----------------------------------------------------------------------------
(* main.go: main, startAPIServer and startCacheServer of the multi-node program *)

\* the goroutine running main; the goroutine Caller serves the requests, one after
\* another
MainGoroutine == 0

\* the orders in which `for _, v := range addrMap` may yield the addresses
AddrOrders == {o \in [1..Cardinality(Addrs) -> Addrs] : {o[i] : i \in DOMAIN o} = Addrs}

\* main after flag.Parse and gee := createGroup() (lines 89-112): -api and -port are
\* any of their values, the group is there, nothing is listening
InitMain ==
    /\ lru = NilCache
    /\ hung = FALSE
    /\ last = NoOp
    /\ cacheBytes = DefaultCacheBytes
    /\ peers = NIL
    /\ pc = [t \in {MainGoroutine, Caller} |-> "idle"]
    /\ call = [t \in {MainGoroutine, Caller} |-> IdleCall]
    /\ prev = IdleCall
    /\ attaches = 0
    /\ panicked = FALSE
    /\ \E api \in BOOLEAN, addr \in Addrs :
          boot = [api |-> api, apiGo |-> "none", step |-> "api", addr |-> addr]
    /\ IdleRegistry
    /\ IdleRing
    /\ IdleLock
    /\ IdlePool
    /\ IdleServer
    /\ IdleNet

\* main, lines 115-117: `if api { go startAPIServer(apiAddr, gee) }`
MainStartAPI ==
    /\ boot.step = "api"
    /\ boot' = [boot EXCEPT !.step = "startCacheServer",
                            !.apiGo = IF boot.api THEN "started" ELSE "none"]
    /\ UNCHANGED <<lruVars, groupVars, registryVars, ringVars, panicked, lockVars,
                   poolVars, req, netVars>>

\* startAPIServer: the handler is installed and ListenAndServe accepts requests
APIListen ==
    /\ boot.apiGo = "started"
    /\ boot' = [boot EXCEPT !.apiGo = "listening"]
    /\ UNCHANGED <<lruVars, groupVars, registryVars, ringVars, panicked, lockVars,
                   poolVars, req, netVars>>

\* startCacheServer, lines 47-48: NewHTTPPool(addr) and peers.Set(addrs...)
MainNewPool(addrs) ==
    /\ boot.step = "startCacheServer"
    /\ pool' = Set(NewHTTPPool(boot.addr), addrs)
    /\ boot' = [boot EXCEPT !.step = "registerPeers"]
    /\ UNCHANGED <<lastPick, lruVars, groupVars, registryVars, ringVars, panicked,
                   lockVars, req, netVars>>

\* startCacheServer, line 49: gee.RegisterPeers(peers) begins
MainRegisterPeers ==
    /\ boot.step = "registerPeers"
    /\ RegisterPeers(MainGoroutine, "pool")

\* startCacheServer, line 57: RegisterPeers has returned and ListenAndServe accepts
\* the requests of the other nodes
MainListen ==
    /\ boot.step = "registerPeers"
    /\ pc[MainGoroutine] = "done"
    /\ boot' = [boot EXCEPT !.step = "serving"]
    /\ UNCHANGED <<lruVars, groupVars, registryVars, ringVars, panicked, lockVars,
                   poolVars, req, netVars>>

\* the handler of /api, line 67: gee.Get(key), on a goroutine of the API server
APIRequest(t, key) ==
    /\ boot.apiGo = "listening"
    /\ GroupGet(t, key)

\* HTTPPool.ServeHTTP reaching group.Get(key), on a goroutine of the cache server
PeerRequest(t, key) ==
    /\ boot.step = "serving"
    /\ GroupGet(t, key)

NextMain ==
    \/ MainStartAPI
    \/ APIListen
    \/ \E addrs \in AddrOrders : MainNewPool(addrs)
    \/ MainRegisterPeers
    \/ RegisterPeersAssign(MainGoroutine)
    \/ MainListen
    \/ \E key \in GetKeys : APIRequest(Caller, key)
    \/ \E key \in GetKeys : PeerRequest(Caller, key)
    \/ MainCacheGet(Caller)
    \/ Load(Caller)
    \/ GetFromPeer(Caller)
    \/ GetLocally(Caller)
    \/ PopulateCache(Caller)
    \/ Return(Caller)

SpecMain == InitMain /\ [][NextMain]_vars

-----------------------------------------------------------------------------
(* Several nodes: each is one process that ran startCacheServer with its own    *)
(* address and the addresses of all nodes, and serves the group "scores". A     *)
(* client's Get at one node travels from node to node as load and ServeHTTP     *)
(* pass it on.                                                                  *)

\* largest number of nodes
MaxNodes == 2
\* most peer fetches one client Get is followed through
MaxHops == 3

\* the addresses nodes listen on
FleetAddrs == {"http://192.168.19.247:8001", "http://192.168.32.100:8001",
               "http://localhost:8001"}
\* the keys clients ask for: two of the database, one it lacks
FleetKeys == {"Tom", "Sam", "kkk"}

\* the orders in which the addresses of S can be handed to Set: main collects addrs
\* by ranging over a map, in an order that differs from process to process
Orders(S) ==
    {l \in [1..Cardinality(S) -> S] : \A i \in DOMAIN l, j \in DOMAIN l : i # j => l[i] # l[j]}

NoTrip == [state |-> "none", key |-> "", entry |-> "", at |-> "", via |-> <<>>,
           fetches |-> 0, src |-> "", value |-> "", err |-> ""]

\* every node has come to ListenAndServe: its pool was constructed with its own
\* address, Set with the addresses of all nodes, and registered with its group
InitFleet ==
    /\ \E S \in SUBSET FleetAddrs :
          /\ Cardinality(S) \in 2..MaxNodes
          /\ \E order \in [S -> Orders(S)] :
                fleet = [addr \in S |->
                            [pool |-> Set(NewHTTPPool(addr), order[addr]),
                             lru |-> NilCache]]
    /\ trip = NoTrip
    /\ wire = <<>>
    /\ lru = NilCache
    /\ hung = FALSE
    /\ last = NoOp
    /\ panicked = FALSE
    /\ IdleGroup
    /\ IdleRegistry
    /\ IdleRing
    /\ IdleLock
    /\ IdlePool
    /\ IdleServer
    /\ IdleMain

\* a client calls Get(key) on the group of one node
ClientGet(addr, key) ==
    /\ trip.state \in {"none", "done"}
    /\ trip' = [NoTrip EXCEPT !.state = "get", !.key = key, !.entry = addr, !.at = addr]
    /\ UNCHANGED <<lruVars, groupVars, registryVars, ringVars, panicked, lockVars,
                   poolVars, req, boot, wire, fleet>>

\* Group.Get, lines 67-70, at the node the request is at: mainCache has the key
NodeHit ==
    /\ trip.state = "get"
    /\ LET r == cacheGet(fleet[trip.at].lru, trip.key)
       IN /\ r.ok
          /\ fleet' = [fleet EXCEPT ![trip.at].lru = r.c]
          /\ trip' = [trip EXCEPT !.state = "reply", !.src = "cache", !.value = r.value]
    /\ UNCHANGED <<lruVars, groupVars, registryVars, ringVars, panicked, lockVars,
                   poolVars, req, boot, wire>>

\* Group.Get, line 73, Group.load, lines 87-91, httpGetter.Get and ServeHTTP of the
\* peer: the node's pool picks a peer, whose handler calls Get on its own group
NodeForward ==
    /\ trip.state = "get"
    /\ trip.fetches < MaxHops
    /\ ~cacheGet(fleet[trip.at].lru, trip.key).ok
    /\ LET r == PickPeer(fleet[trip.at].pool, trip.key)
       IN /\ r.ok
          /\ trip' = [trip EXCEPT !.at = r.peer, !.via = Append(@, trip.at),
                                  !.fetches = @ + 1]
    /\ UNCHANGED <<lruVars, groupVars, registryVars, ringVars, panicked, lockVars,
                   poolVars, req, boot, wire, fleet>>

\* Group.getLocally and Group.populateCache at one node
LoadLocally(addr, key) ==
    LET r == Getter(key)
    IN IF r.err # ""
       THEN [lru |-> fleet[addr].lru, value |-> "", err |-> r.err]
       ELSE [lru |-> cacheAdd(fleet[addr].lru, DefaultCacheBytes, key,
                              cloneBytes(r.bytes)).c,
             value |-> cloneBytes(r.bytes), err |-> ""]

\* Group.Get, line 73, Group.load, lines 89 and 100: the node's pool declines, the
\* node loads the key itself
NodeLocal ==
    /\ trip.state = "get"
    /\ ~cacheGet(fleet[trip.at].lru, trip.key).ok
    /\ ~PickPeer(fleet[trip.at].pool, trip.key).ok
    /\ LET r == LoadLocally(trip.at, trip.key)
       IN /\ fleet' = [fleet EXCEPT ![trip.at].lru = r.lru]
          /\ trip' = [trip EXCEPT !.state = "reply", !.src = "loader", !.value = r.value,
                                  !.err = r.err]
    /\ UNCHANGED <<lruVars, groupVars, registryVars, ringVars, panicked, lockVars,
                   poolVars, req, boot, wire>>

\* the Get of the node the request is at has returned. The client has its answer; or
\* ServeHTTP, lines 74-84, answers the node that forwarded, whose load returns the
\* value (lines 91-93) or, on an error, loads the key itself (lines 95-100)
NodeReply ==
    /\ trip.state = "reply"
    /\ IF trip.via = <<>>
       THEN /\ trip' = [trip EXCEPT !.state = "done"]
            /\ UNCHANGED fleet
       ELSE LET back == trip.via[Len(trip.via)]
                rest == SubSeq(trip.via, 1, Len(trip.via) - 1)
            IN IF trip.err = ""
               THEN /\ trip' = [trip EXCEPT !.at = back, !.via = rest, !.src = "peer"]
                    /\ UNCHANGED fleet
               ELSE LET r == LoadLocally(back, trip.key)
                    IN /\ fleet' = [fleet EXCEPT ![back].lru = r.lru]
                       /\ trip' = [trip EXCEPT !.at = back, !.via = rest, !.src = "loader",
                                               !.value = r.value, !.err = r.err]
    /\ UNCHANGED <<lruVars, groupVars, registryVars, ringVars, panicked, lockVars,
                   poolVars, req, boot, wire>>

NextFleet ==
    \/ \E addr \in DOMAIN fleet, key \in FleetKeys : ClientGet(addr, key)
    \/ NodeHit
    \/ NodeForward
    \/ NodeLocal
    \/ NodeReply

SpecFleet == InitFleet /\ [][NextFleet]_vars

-----------------------------------------------------------------------------
(* Helpers for the properties *)

RECURSIVE SumBytes(_)
SumBytes(ll) ==
    IF ll = <<>> THEN 0
    ELSE Len(ll[1].key) + ValueLen(ll[1].value) + SumBytes(Tail(ll))

ListKeys(ll) == {ll[i].key : i \in 1..Len(ll)}

\* C1: after every Add that returns on a store with capacity > 0, nbytes <= maxBytes,
\* also when the added entry alone is larger than the capacity.
CapacityInvariant ==
    (lru.maxBytes > 0 /\ last.op = "Add" /\ last.ok) => lru.nbytes <= lru.maxBytes

\* C1 witness: an Add of an entry larger than the whole capacity has returned.
OversizedAddReturned ==
    /\ lru.maxBytes > 0
    /\ last.op = "Add" /\ last.ok
    /\ Len(last.key) + ValueLen(last.value) > lru.maxBytes
    /\ lru.nbytes <= lru.maxBytes

\* C2: after every Add, Get and RemoveOldest the counter nbytes is exactly the sum of
\* len(key)+value.Len() over the held entries, and the index (cache) and the recency
\* list (ll) hold the same keys, each once, the index pointing at the list's entry.
BytesAndIndexExact ==
    /\ lru.nbytes = SumBytes(lru.ll)
    /\ DOMAIN lru.cache = ListKeys(lru.ll)
    /\ Cardinality(ListKeys(lru.ll)) = Len(lru.ll)
    /\ \A i \in 1..Len(lru.ll) : lru.cache[lru.ll[i].key] = lru.ll[i]

\* C2 witness: an in-place update of a held key to a longer value has evicted another
\* entry and left at least one entry in the store.
UpdateThenEvictionHappened ==
    /\ last.op = "Add" /\ last.updated /\ last.ok
    /\ last.evicted # <<>>
    /\ lru.ll # <<>>
    /\ lru.nbytes = SumBytes(lru.ll)

-----------------------------------------------------------------------------
(* Group.Get *)

\* len(key) + value.Len() of the entry getLocally caches for a key of the database
RowBytes(key) == Len(key) + Len(db[key])

\* the store has room for the key's entry
Fits(key) == cacheBytes = 0 \/ RowBytes(key) <= cacheBytes

\* the caller has finished a second Get in a row for a key of the database, the first
\* of which missed the local cache and was served
SecondGetDone ==
    /\ pc[Caller] = "done" /\ call[Caller].op = "Get"
    /\ prev.op = "Get" /\ prev.key = call[Caller].key
    /\ prev.key \in DOMAIN db
    /\ prev.src \in {"peer", "loader"}

\* C3 as claimed: two Gets in a row for a key the loader supplies call the loader
\* exactly once, and the second is a cache hit with the same value.
LoadThenHitAlways ==
    SecondGetDone =>
        /\ prev.loads + call[Caller].loads = 1
        /\ call[Caller].src = "hit"
        /\ call[Caller].value = prev.value

\* C3 amended: two Gets in a row by the only caller, for a key the loader supplies,
\* call the loader exactly once and the second is a hit with the same value, when the
\* first was served by the loader (not by a peer) and the capacity is zero or at least
\* len(key) + len(value).
LoadThenHit ==
    (SecondGetDone /\ prev.src = "loader" /\ Fits(prev.key)) =>
        /\ prev.loads + call[Caller].loads = 1
        /\ call[Caller].src = "hit"
        /\ call[Caller].lookups = 1
        /\ call[Caller].value = prev.value

\* C3 witness: a second Get in a row was a hit after the first one loaded the key.
SecondGetWasHit ==
    /\ SecondGetDone /\ prev.src = "loader" /\ prev.loads = 1 /\ Fits(prev.key)
    /\ call[Caller].src = "hit" /\ call[Caller].loads = 0

\* goroutines that have a result of Get in hand
Done == {t \in Threads : pc[t] = "done" /\ call[t].op = "Get"}

\* C4: a Get served by the picked peer returns the peer's bytes, has not called the
\* loader and has not changed mainCache; mainCache holds only what the loader gave.
PeerServedNotCached ==
    /\ \A t \in Done : call[t].src = "peer" =>
            /\ call[t].value = call[t].remote /\ call[t].err = ""
            /\ call[t].fetches = 1 /\ call[t].loads = 0
            /\ ~call[t].wrote
    /\ lru # NilCache =>
            \A i \in 1..Len(lru.ll) :
                /\ lru.ll[i].key \in DOMAIN db
                /\ lru.ll[i].value = db[lru.ll[i].key]

\* C4 witness: a Get was served by a peer while mainCache holds another key and not
\* the one served.
PeerServedBesideCache ==
    \E t \in Done :
        /\ call[t].src = "peer" /\ call[t].lookups = 1
        /\ lru # NilCache /\ lru.ll # <<>>
        /\ call[t].key \notin DOMAIN lru.cache

\* the call of goroutine t had its one peer fetch fail
FetchFailed(t) == call[t].op = "Get" /\ call[t].fetches >= 1 /\ call[t].src # "peer"

\* C5: a Get asks the picker and a peer at most once; after a failed fetch it calls
\* the loader once, and when the loader has the key the caller gets the loaded value
\* and no error.
FailedFetchFallsBack ==
    \A t \in Threads :
        /\ call[t].picks <= 1 /\ call[t].fetches <= 1
        /\ (FetchFailed(t) /\ pc[t] = "done") =>
              /\ call[t].loads = 1
              /\ call[t].key \in DOMAIN db =>
                    /\ call[t].err = ""
                    /\ call[t].src = "loader"
                    /\ call[t].value = db[call[t].key]

\* C5 witness: a Get whose peer fetch failed has returned the loaded value.
FallbackServed ==
    \E t \in Done :
        /\ FetchFailed(t) /\ call[t].src = "loader" /\ call[t].err = ""
        /\ call[t].value = db[call[t].key]

\* C6: a Get with the empty key is over at once with the validation error: no cache
\* lookup, no PickPeer, no fetch, no loader call, mainCache as it was.
EmptyKeyRejected ==
    \A t \in Threads : (call[t].op = "Get" /\ call[t].key = "") =>
        /\ pc[t] = "done"
        /\ call[t].err = ErrKeyRequired /\ call[t].src = ""
        /\ call[t].lookups = 0 /\ call[t].picks = 0
        /\ call[t].fetches = 0 /\ call[t].loads = 0
        /\ ~call[t].wrote

\* C6 witness: a Get with the empty key has failed while mainCache holds an entry.
EmptyKeyFailed ==
    \E t \in Done :
        /\ call[t].key = "" /\ call[t].err = ErrKeyRequired
        /\ lru # NilCache /\ lru.ll # <<>>

\* C7: a Get whose loader failed returns the loader's own error (not the error of an
\* earlier failed fetch) and has not changed mainCache.
LoaderErrorVerbatim ==
    \A t \in Done : (call[t].loads >= 1 /\ Getter(call[t].key).err # "") =>
        /\ call[t].err = Getter(call[t].key).err
        /\ call[t].err # ErrPeer
        /\ call[t].src = "" /\ call[t].loads = 1
        /\ ~call[t].wrote

\* C7 witness: a Get has failed with the loader's error after its peer fetch failed,
\* with an entry in mainCache.
LoaderFailedAfterFetchFailed ==
    \E t \in Done :
        /\ call[t].fetches = 1 /\ call[t].loads = 1
        /\ call[t].err = "kkk not exist"
        /\ lru # NilCache /\ lru.ll # <<>>

\* C8 as claimed: the picker is attached at most once; a RegisterPeers after (or
\* alongside) the first one panics and leaves g.peers as it is.
AttachedAtMostOnce == attaches <= 1

-----------------------------------------------------------------------------
(* The registry *)

\* the group the latest of the first n constructing NewGroup calls made for the name,
\* NilGroup if none of them had that name
MostRecentOf(name, n) ==
    LET made == {i \in 1..n : created[i].name = name}
    IN IF made = {} THEN NilGroup ELSE CHOOSE i \in made : \A j \in made : j <= i

MostRecent(name) == MostRecentOf(name, Len(created))

\* C9: GetGroup(name) gives the group the most recent NewGroup(name, ...) made and
\* nil for a name no NewGroup was given; a NewGroup with a nil getter registers nothing.
GetGroupMostRecent ==
    /\ \A name \in GroupNames : GroupsAt(name) = MostRecent(name)
    /\ lookup.made => lookup.g = MostRecentOf(lookup.name, lookup.at)
    /\ lookup.made => (lookup.g = NilGroup \/ created[lookup.g].name = lookup.name)
    /\ \A i \in 1..Len(created) : created[i].getter # NIL

\* C9 witness: a name was registered twice and GetGroup returned the second group,
\* while the other name has never been registered.
SecondGroupFound ==
    /\ lookup.made /\ lookup.g > 1 /\ lookup.at = Len(created)
    /\ \E i \in 1..(lookup.g - 1) : created[i].name = lookup.name
    /\ \E name \in GroupNames : MostRecent(name) = NilGroup /\ GroupsAt(name) = NilGroup

-----------------------------------------------------------------------------
(* The ring *)

\* C10: a key looked up again on a ring whose peers have not changed gets the same
\* peer, and so does the key on the other ring once it has been given the same peers
\* in the same order (in whatever Add calls).
RingDeterminism ==
    /\ \A r1 \in Rings, r2 \in Rings : fed[r1] = fed[r2] =>
            \A key \in RingKeys : MapGet(ring[r1], key) = MapGet(ring[r2], key)
    /\ picked.made =>
            \A r \in Rings : fed[r] = fed[picked.r] /\ Len(fed[r]) = picked.at =>
                MapGet(ring[r], picked.key) = picked.peer

\* C10 witness: both rings hold the same two peers, given to one in a single Add and
\* to the other in two, and the other ring returns the peer picked on the first.
SamePeersSamePick ==
    /\ picked.made /\ picked.r = 1 /\ picked.at = 2
    /\ adds[1] = 1 /\ adds[2] = 2
    /\ fed[1] = fed[2] /\ Len(fed[1]) = 2 /\ fed[1][1] # fed[1][2]
    /\ picked.peer # ""
    /\ MapGet(ring[2], picked.key) = picked.peer

\* the virtual-node hashes of the peers given to ring r, computed from the peers
VirtualHashes(r) ==
    {Hash(ring[r].hash, Itoa(i) \o fed[r][j]) :
        i \in 0..(ring[r].replicas - 1), j \in 1..Len(fed[r])}

\* the peers one of whose virtual-node labels hashes to h
Owners(r, h) ==
    {fed[r][j] : j \in {n \in 1..Len(fed[r]) :
        \E i \in 0..(ring[r].replicas - 1) :
            Hash(ring[r].hash, Itoa(i) \o fed[r][n]) = h}}

MinOf(S) == CHOOSE x \in S : \A y \in S : x <= y

\* the key's hash exceeds every virtual-node hash of ring r
PastTheEnd(r, key) ==
    \A h \in VirtualHashes(r) : h < Hash(ring[r].hash, key)

\* the virtual-node hash a key resolves to on the non-empty ring r: the first one at
\* or after the key's hash in ascending order, the smallest one when there is none
Successor(r, key) ==
    IF PastTheEnd(r, key) THEN MinOf(VirtualHashes(r))
    ELSE MinOf({h \in VirtualHashes(r) : h >= Hash(ring[r].hash, key)})

\* C11: on a ring with peers Get(key) returns the peer owning the first virtual-node
\* hash >= the key's hash in ascending order, and the peer owning the smallest
\* virtual-node hash when the key's hash exceeds them all; on a ring with no peers
\* Get returns the empty string.
SuccessorOwner ==
    /\ \A r \in Rings, key \in RingKeys :
          IF fed[r] = <<>> THEN MapGet(ring[r], key) = ""
          ELSE /\ MapGet(ring[r], key) \in Owners(r, Successor(r, key))
               /\ MapGet(ring[r], key) = ring[r].hashMap[Successor(r, key)]
    /\ picked.made /\ picked.at = Len(fed[picked.r]) =>
          IF fed[picked.r] = <<>> THEN picked.peer = ""
          ELSE picked.peer \in Owners(picked.r, Successor(picked.r, picked.key))

\* C11 witness: on a ring of two different peers a Get of a key whose hash exceeds
\* every virtual-node hash has returned the owner of the smallest one, which is not
\* the owner of the largest.
WrappedToSmallest ==
    /\ picked.made /\ picked.at = Len(fed[picked.r])
    /\ Len(fed[picked.r]) = 2 /\ fed[picked.r][1] # fed[picked.r][2]
    /\ PastTheEnd(picked.r, picked.key)
    /\ picked.peer \in Owners(picked.r, MinOf(VirtualHashes(picked.r)))
    /\ picked.peer \notin
          Owners(picked.r, CHOOSE x \in VirtualHashes(picked.r) :
                                \A y \in VirtualHashes(picked.r) : y <= x)

\* the list is in ascending order, equal neighbours allowed
Ascending(keys) == \A i \in 1..(Len(keys) - 1) : keys[i] <= keys[i + 1]

\* the list is in ascending order and no value occurs twice
StrictlyAscending(keys) == \A i \in 1..(Len(keys) - 1) : keys[i] < keys[i + 1]

\* the entries of the ordered list of ring r that the ring resolves to peer
EntriesOf(r, peer) ==
    {i \in 1..Len(ring[r].keys) : ring[r].hashMap[ring[r].keys[i]] = peer}

\* the peers given to ring r
FedPeers(r) == {fed[r][j] : j \in 1..Len(fed[r])}

\* the virtual-node labels given to ring r, one per replica of every peer given
Labels(r) == (1..Len(fed[r])) \X (0..(ring[r].replicas - 1))

LabelHash(r, l) == Hash(ring[r].hash, Itoa(l[2]) \o fed[r][l[1]])

\* no peer was given to ring r twice, and no two labels hash to the same value
NoRepeatNoCollision(r) ==
    \A l1 \in Labels(r), l2 \in Labels(r) :
        l1 # l2 => LabelHash(r, l1) # LabelHash(r, l2)

\* C12 as stated: after any sequence of Add calls every peer given has exactly
\* `replicas` entries in the ring, and the ordered list is sorted ascending and free
\* of duplicate values, also when a peer was given twice or two labels collide.
ReplicasPerPeerNoDuplicates ==
    \A r \in Rings :
        /\ StrictlyAscending(ring[r].keys)
        /\ \A peer \in FedPeers(r) : Cardinality(EntriesOf(r, peer)) = ring[r].replicas

\* C12: after any sequence of Add calls the ordered list is sorted ascending and
\* holds one entry per replica of every peer given, a peer given twice counted twice:
\* every value occurs in it as often as there are labels hashing to it. When no peer
\* was given twice and no two labels collide, the list is free of duplicates and every
\* peer has exactly `replicas` entries.
SortedOneEntryPerLabel ==
    \A r \in Rings :
        /\ Ascending(ring[r].keys)
        /\ Len(ring[r].keys) = ring[r].replicas * Len(fed[r])
        /\ \A h \in VirtualHashes(r) :
              Cardinality({i \in 1..Len(ring[r].keys) : ring[r].keys[i] = h})
                = Cardinality({l \in Labels(r) : LabelHash(r, l) = h})
        /\ {ring[r].keys[i] : i \in 1..Len(ring[r].keys)} = VirtualHashes(r)
        /\ DOMAIN ring[r].hashMap = VirtualHashes(r)
        /\ NoRepeatNoCollision(r) =>
              /\ StrictlyAscending(ring[r].keys)
              /\ \A peer \in FedPeers(r) :
                    Cardinality(EntriesOf(r, peer)) = ring[r].replicas

\* C12 witness: a ring given two different peers, labels of which hash to the same
\* value, holds that value twice in its sorted list.
CollisionKeptTwice ==
    \E r \in Rings :
        /\ Len(fed[r]) = 2 /\ fed[r][1] # fed[r][2]
        /\ Len(ring[r].keys) = ring[r].replicas * 2
        /\ Ascending(ring[r].keys)
        /\ \E i \in 1..(Len(ring[r].keys) - 1) : ring[r].keys[i] = ring[r].keys[i + 1]

-----------------------------------------------------------------------------
(* Recency *)

\* C17 as stated: after every Add of key K that returned and every Get that found K,
\* K is at the front of the recency list.
FrontAfterTouch ==
    (last.ok /\ last.op \in {"Add", "Get"}) =>
        lru.ll # <<>> /\ lru.ll[1].key = last.key

\* C17: after a Get that found K, K is at the front of the recency list; after an Add
\* of K that returned, K is at the front with the value added, unless the entry is
\* larger than the whole capacity: then the Add's own eviction loop has removed K and
\* every other entry, and the store is empty. A Get that missed has not inserted K.
FrontUnlessEvicted ==
    /\ (last.op = "Get" /\ last.ok) =>
            lru.ll # <<>> /\ lru.ll[1] = Entry(last.key, last.value)
    /\ (last.op = "Get" /\ ~last.ok) => last.key \notin DOMAIN lru.cache
    /\ (last.op = "Add" /\ last.ok) =>
            IF lru.maxBytes # 0 /\ Len(last.key) + ValueLen(last.value) > lru.maxBytes
            THEN lru.ll = <<>>
            ELSE lru.ll # <<>> /\ lru.ll[1] = Entry(last.key, last.value)

\* C17 witness: a Get has found a key that was not the most recently touched one
\* and left it at the front of a list of at least two entries.
GetMovedToFront ==
    /\ last.op = "Get" /\ last.ok
    /\ Len(lru.ll) >= 2
    /\ last.moved
    /\ lru.ll[1].key = last.key

\* C18: the entries an operation evicts are those touched least recently among the
\* entries held at that moment: no held entry is left whose last touch is older than
\* that of an evicted one.
EvictsLeastRecentlyTouched ==
    /\ KeysOf(last.order) = DOMAIN lru.cache
    /\ last.gone =
          {last.touched[i] :
              i \in (Len(last.touched) - Cardinality(last.gone) + 1)..Len(last.touched)}
    /\ \A i \in 1..Len(last.touched), j \in 1..Len(last.touched) :
          (last.touched[i] \in last.gone /\ last.touched[j] \notin last.gone) => j < i

\* C18 witness: the Add of a new key to a store of at least two entries has evicted
\* exactly one, the one touched least recently, and the one touched next to least
\* recently is now the oldest one held.
EvictedAfterGetReordered ==
    /\ last.op = "Add" /\ last.ok /\ ~last.updated
    /\ Cardinality(last.gone) = 1
    /\ Len(last.order) >= 2
    /\ Len(last.touched) = Len(last.order) + 1
    /\ last.gone = {last.touched[Len(last.touched)]}
    /\ last.touched[1] = last.key
    /\ lru.ll[Len(lru.ll)].key = last.touched[Len(last.touched) - 1]

-----------------------------------------------------------------------------
(* PickPeer *)

\* C14 as stated: PickPeer returns a remote peer only when the ring maps the key to a
\* peer other than the node itself, never the node itself, and returns (nil, false)
\* without faulting when the key is the node's own and when no peers are registered,
\* also on a pool Set was never called on.
PickPeerDeclinesSafely ==
    lastPick.made =>
        /\ ~lastPick.fault
        /\ lastPick.ok => lastPick.peer \notin {"", pool.self}
        /\ lastPick.ok => lastPick.getter = [baseURL |-> lastPick.peer \o pool.basePath]
        /\ ~lastPick.ok => lastPick.getter = NilGetter

-----------------------------------------------------------------------------
(* ServeHTTP *)

\* the number of segments of a path: one more than the separators in it
Segments(a) == Cardinality({i \in 1..Len(a) : a[i] = "/"}) + 1

\* the request has reached group.Get
ReachedGet == req.got \/ (req.state = "dispatch" /\ call[Caller].op = "Get")

\* C13 as stated: a request is accepted only when the path after the base path has
\* exactly two segments; with one segment, or three or more, it is answered with 400
\* and never reaches Group.Get.
TwoSegmentsOnly ==
    (req.state \in {"dispatch", "replied"} /\ Segments(req.path) # 2) =>
        /\ ~ReachedGet
        /\ req.state = "replied" /\ req.status = 400

\* C13: a request is accepted when the path after the base path holds a separator:
\* what stands before the first one is the group name, all that follows, further
\* separators included, is the key. A path without a separator (one segment) is
\* answered with 400 and never reaches Group.Get; so is no other path.
SplitAtFirstSeparator ==
    req.state \in {"dispatch", "replied"} =>
        IF Segments(req.path) = 1
        THEN req.state = "replied" /\ req.status = 400 /\ ~ReachedGet
        ELSE /\ req.status # 400
             /\ Len(req.parts) = 2
             /\ req.parts[1] \o "/" \o req.parts[2] = Join(req.path)
             /\ \E i \in 1..Len(req.path) :
                   /\ req.path[i] = "/"
                   /\ \A j \in 1..(i - 1) : req.path[j] # "/"
                   /\ req.parts[1] = Join(SubSeq(req.path, 1, i - 1))
             /\ req.state = "replied" =>
                   IF req.parts[1] = "scores" THEN req.got /\ req.status \in {200, 500}
                   ELSE ~req.got /\ req.status = 404
             /\ ReachedGet /\ req.state = "dispatch" =>
                   call[Caller].key = req.parts[2]

\* C13 witness: a request with three segments for the group "scores" has reached
\* Group.Get with a key that holds a separator, and has been answered.
SeparatorInKeyServed ==
    /\ req.state = "replied" /\ req.got
    /\ Segments(req.path) = 3
    /\ req.parts = <<"scores", "Tom/Tom">>
    /\ req.status = 500
    /\ req.body = "Tom/Tom not exist"

-----------------------------------------------------------------------------
(* The mutex of mainCache *)

\* the goroutines inside the LRU store of the group
InStore == {t \in Threads : crit[t] = "in"}

\* C20: at no time are two goroutines inside the LRU store of the group (its lazy
\* construction, Add, or Get with its recency update): whoever is inside holds c.mu,
\* for every interleaving of concurrent Group.Get calls.
OneGoroutineInStore ==
    /\ Cardinality(InStore) <= 1
    /\ \A t \in InStore : mu = t
    /\ mu # 0 => mu \in InStore

\* C20 witness: one goroutine is inside the store about to add what it loaded, while
\* another, which wants to look up the same key, is kept waiting for the mutex.
KeptWaitingForStore ==
    \E t \in Threads, u \in Threads :
        /\ t # u
        /\ crit[t] = "in" /\ pc[t] = "populateCache" /\ mu = t
        /\ crit[u] = "out" /\ pc[u] = "get"
        /\ call[u].key = call[t].key

\* C16 as stated, in the form a finite run refutes: no Group.Get is in a call that
\* never returns, and none waits for the cache mutex held by such a call.
NoGetBlockedForever ==
    \A t \in Threads :
        /\ pc[t] # "stuck"
        /\ ~(/\ pc[t] \in {"get", "populateCache"}
              /\ crit[t] = "out"
              /\ mu # 0
              /\ pc[mu] = "stuck")

-----------------------------------------------------------------------------
(* Concurrent Get calls for one key *)

\* C15 as stated: of two Get calls for the same uncached key that both began before
\* either completed, both miss mainCache and both call the loader or fetch from the
\* peer.
OverlappingGetsBothLoad ==
    \A t \in Threads :
        (pc[t] = "done" /\ call[t].op = "Get" /\ call[t].conc) =>
            /\ call[t].src # "hit"
            /\ call[t].loads = 1 \/ call[t].fetches = 1

\* C15: no Get is coalesced with, or answered from, another Get's load under way:
\* a Get that missed mainCache is answered by its own loader call or its own peer
\* fetch, and only a Get that found the key in mainCache returns without either.
EachMissLoadsItself ==
    \A t \in Threads :
        (call[t].op = "Get" /\ call[t].key # "") =>
            /\ pc[t] \in {"load", "getFromPeer", "getLocally"} =>
                  call[t].lookups = 1 /\ call[t].value = "" /\ call[t].src = ""
            /\ pc[t] = "populateCache" => call[t].loads = 1
            /\ pc[t] = "done" =>
                  /\ call[t].lookups = 1
                  /\ call[t].src = "hit" => call[t].loads = 0 /\ call[t].fetches = 0
                  /\ call[t].src = "loader" =>
                        call[t].loads = 1 /\ call[t].value = db[call[t].key]
                  /\ call[t].src = "peer" =>
                        call[t].fetches = 1 /\ call[t].value = call[t].remote
                  /\ call[t].err # "" => call[t].loads = 1
                  /\ call[t].src \in {"hit", "loader", "peer"} \/ call[t].err # ""

\* C15 witness: two Get calls for the same key of the database, overlapping in time,
\* have both missed mainCache and both called the loader, on a store that never
\* evicts.
BothMissedBothLoaded ==
    \E t \in Threads, u \in Threads :
        /\ t # u
        /\ cacheBytes = 0
        /\ pc[t] = "done" /\ pc[u] = "done"
        /\ call[t].op = "Get" /\ call[u].op = "Get"
        /\ call[t].key = call[u].key /\ call[t].key \in DOMAIN db
        /\ call[t].conc /\ call[u].conc
        /\ call[t].src = "loader" /\ call[u].src = "loader"
        /\ call[t].loads = 1 /\ call[u].loads = 1

-----------------------------------------------------------------------------
(* The start of the node *)

\* C19 as stated: in the multi-node program no Group.Get, from the API endpoint or
\* from a request of another node, runs before or while RegisterPeers runs on the
\* group: whenever a Get is under way the picker is attached and RegisterPeers has
\* returned.
AttachedBeforeTraffic ==
    call[Caller].op = "Get" =>
        /\ peers # NIL
        /\ pc[MainGoroutine] = "done"
        /\ attaches = 1

-----------------------------------------------------------------------------
(* Capacity zero, and negative capacities *)

\* C21: on a store of capacity zero every Add and Get returns, the eviction loop of
\* an Add is never entered, no operation removes an entry, an Add adds its key to the
\* keys held and a Get adds none, and Len is the number of keys held: so Len is the
\* number of distinct keys added.
ZeroIsUnbounded ==
    [][/\ ~hung'
       /\ ~OverBudget(AddStore(lru, last'.key, last'.value))
       /\ last'.gone = {} /\ last'.evicted = <<>>
       /\ DOMAIN lru'.cache =
             DOMAIN lru.cache \cup (IF last'.op = "Add" THEN {last'.key} ELSE {})
       /\ CacheLen(lru') = Cardinality(DOMAIN lru'.cache)
       /\ CacheLen(lru') = Cardinality(KeysOf(last'.order))
       /\ lru'.nbytes = SumBytes(lru'.ll)]_vars

\* C21 witness: a store of capacity zero holds every key of the model, with more
\* bytes than the largest positive capacity of the model.
AllKeysHeldAtZero ==
    /\ lru.maxBytes = 0
    /\ last.op = "Add" /\ last.ok
    /\ DOMAIN lru.cache = Keys
    /\ CacheLen(lru) = NumKeys
    /\ lru.nbytes > MaxCap

\* C22 as stated: every Add returns, for every capacity and every entry size.
EveryAddReturns ==
    /\ ~hung
    /\ last.op = "Add" => last.ok

-----------------------------------------------------------------------------
(* The peer fetch on the wire *)

\* C24 as stated: the group name and key the handler extracts are the group name and
\* key the getter was asked for.
RoundTrip ==
    wire.state \in {"split", "bad request"} =>
        wire.parts = <<Join(wire.group), Join(wire.key)>>

-----------------------------------------------------------------------------
(* A Get among several nodes *)

\* C23 as stated: with the same peer set on every node, each node's address in it, a
\* forwarded request is not forwarded again: a client Get causes at most one peer
\* fetch in the whole fleet.
ForwardedAtMostOnce ==
    trip.fetches <= 1

====
